---- MODULE Spec2Model ----
(***************************************************************************)
(* Sol-Engine: the swapchain lifecycle and the frame loop of RenderSystem. *)
(*                                                                         *)
(* The program is single threaded.  pc is the position of that thread in   *)
(* main -> SolEngine::init/update/shutdown -> RenderSystem::*.  The GPU    *)
(* and the window system are the environment: the GPU retires queued work  *)
(* asynchronously (GpuComplete), glfwPollEvents delivers resize and close  *)
(* events, and every Vulkan call that returns a VkResult draws it from the *)
(* set of results the call can produce.                                    *)
(***************************************************************************)
EXTENDS Integers, Sequences, FiniteSets, TLC

(***************************************************************************)
(* Bounds of the model (UINT32_MAX below is one too).                      *)
(***************************************************************************)
\* The window is closed at the latest after MaxFrames iterations of the loop.
MaxFrames == 2

(***************************************************************************)
(* Values.                                                                 *)
(***************************************************************************)
\* std::numeric_limits<uint32_t>::max(), the currentExtent.width of a surface
\* whose size is decided by the swapchain.  The model's unsigned integers are
\* narrower than 32 bits: they range over 0..UINT32_MAX and wrap modulo
\* UINT32_MAX + 1.
UINT32_MAX == 15

Extent(w, h) == [width |-> w, height |-> h]
NoExtent == Extent(0, 0)

SurfaceFormat(f, c) == [format |-> f, colorSpace |-> c]
PreferredFormat == SurfaceFormat("B8G8R8A8_UNORM", "SRGB_NONLINEAR")

Max(a, b) == IF a >= b THEN a ELSE b
Min(a, b) == IF a <= b THEN a ELSE b

\* The window sizes the resize callback reports (0 when minimised).
WindowSizes == {Extent(0, 1), Extent(1, 0), Extent(1, 1), Extent(2, 1)}

\* The surface capabilities vkGetPhysicalDeviceSurfaceCapabilitiesKHR reports.
SurfaceCaps ==
    { [currentExtent |-> Extent(UINT32_MAX, UINT32_MAX),
       minImageExtent |-> Extent(1, 1), maxImageExtent |-> Extent(2, 2)],
      [currentExtent |-> Extent(2, 2),
       minImageExtent |-> Extent(2, 2), maxImageExtent |-> Extent(2, 2)] }

\* The surface format lists vkGetPhysicalDeviceSurfaceFormatsKHR reports.
FormatLists ==
    { << SurfaceFormat("R8G8B8A8_UNORM", "SRGB_NONLINEAR"), PreferredFormat >>,
      << SurfaceFormat("R8G8B8A8_UNORM", "SRGB_NONLINEAR") >> }

AcquireResults ==
    {"VK_SUCCESS", "VK_SUBOPTIMAL_KHR", "VK_ERROR_OUT_OF_DATE_KHR",
     "VK_ERROR_DEVICE_LOST"}
SubmitResults == {"VK_SUCCESS", "VK_ERROR_DEVICE_LOST"}
PresentResults ==
    {"VK_SUCCESS", "VK_SUBOPTIMAL_KHR", "VK_ERROR_OUT_OF_DATE_KHR",
     "VK_ERROR_DEVICE_LOST"}

(***************************************************************************)
(* The objects whose creation parameters depend on the swapchain.          *)
(***************************************************************************)
SwapChainObjects ==
    {"swapChain", "imageViews", "renderPass", "pipelineLayout", "pipeline",
     "depthImage", "depthImageView", "framebuffers", "commandBuffers"}

\* The vectors with one element per swapchain image: m_swapChainImages,
\* m_swapChainImageViews, m_swapChainFramebuffers and m_commandBuffers, by
\* the name of the object they hold.
SizedVectors == {"swapChain", "imageViews", "framebuffers", "commandBuffers"}

\* The numbers of images vkGetSwapchainImagesKHR may report for a swapchain.
ImageCounts == {2, 3}

\* CommandBufferCount for command buffers that are allocated once only.
CommandBufferCount_allocatedOnce(s) ==
    IF s["commandBuffers"] = 0 THEN s["framebuffers"] ELSE s["commandBuffers"]

\* createCommandBuffers: m_commandBuffers.resize(m_swapChainFramebuffers.size()).
CommandBufferCount(s) == s["framebuffers"]

\* An object that does not exist (never created, or destroyed).
NoObject == [live |-> FALSE, gen |-> 0, extent |-> NoExtent, format |-> "none"]

\* An object built while swapchain generation g was the live one, from the
\* extent e and the image format f (NoExtent / "none" where the creation
\* does not read them).
Built(g, e, f) == [live |-> TRUE, gen |-> g, extent |-> e, format |-> f]

(***************************************************************************)
(* The operations update() hands to the GPU and the semaphores that order  *)
(* them.                                                                   *)
(***************************************************************************)
\* m_imageAvailableSemaphore and m_renderFinishedSemaphore.
Semaphores == {"imageAvailable", "renderFinished"}

\* The image acquisition, the draw submitted to m_graphicsQueue, the
\* present queued to m_presentQueue, and the one-shot command buffer that
\* endAndSubmitCommandBuffer submits to m_graphicsQueue.
GpuOperations == {"acquire", "draw", "present", "oneShot"}

\* The operations that are work of a queue; vkDeviceWaitIdle and
\* vkQueueWaitIdle wait for these.
QueueOperations == {"draw", "present", "oneShot"}

\* WaitSemaphore with a present that waits on nothing.
WaitSemaphore_presentUnordered(op) ==
    CASE op = "acquire" -> "none"
      [] op = "draw" -> "imageAvailable"
      [] op = "present" -> "none"
      [] op = "oneShot" -> "none"

\* The semaphore an operation waits on before it executes: pWaitSemaphores
\* of the VkSubmitInfo and of the VkPresentInfoKHR (the VkSubmitInfo of a
\* one-shot command buffer has none).
WaitSemaphore(op) ==
    CASE op = "acquire" -> "none"
      [] op = "draw" -> "imageAvailable"
      [] op = "present" -> "renderFinished"
      [] op = "oneShot" -> "none"

\* The semaphore an operation signals when it completes: the semaphore
\* passed to vkAcquireNextImageKHR, pSignalSemaphores of the VkSubmitInfo.
SignalSemaphore(op) ==
    CASE op = "acquire" -> "imageAvailable"
      [] op = "draw" -> "renderFinished"
      [] op = "present" -> "none"
      [] op = "oneShot" -> "none"

VARIABLES
    pc,                     \* position of the main thread
    ctx,                    \* who is running the create/cleanup sequence
    cleanupIdx,             \* next statement of cleanupSwapChain
    input,                  \* Input singleton: shouldResize, width, height
    shouldClose,            \* glfwWindowShouldClose
    caps,                   \* surface capabilities, as the driver reports them
    formats,                \* surface formats, as the driver reports them
    objs,                   \* the swapchain-dependent objects
    res,                    \* the other live resources of RenderSystem
    m_swapChainExtent,      \* RenderSystem::m_swapChainExtent
    m_swapChainImageFormat, \* RenderSystem::m_swapChainImageFormat
    swapGen,                \* number of swapchains created so far
    staleGens,              \* generations that reported VK_ERROR_OUT_OF_DATE_KHR
    uboExtent,              \* extent the projection in the uniform buffer is from
    inFlight,               \* operations handed to the GPU and not yet retired
    sem,                    \* which of the two semaphores is signalled
    retired,                \* operations the GPU retired in this iteration, in order
    resignalled,            \* semaphores given a signal while one was outstanding
    frame,                  \* iterations of the frame loop started
    iter,                   \* what the current iteration has done so far
    created,                \* objects in the order the current generation built them
    destroyed,              \* objects in the order the current cleanup destroyed them
    recreationTeardown,     \* that order, for the last recreation that finished its cleanup
    envChanged,             \* the window size or the surface's report changed since createSwapChain
    oneShot,                \* the one-shot command buffers of the running create function
    alive,                  \* the live objects that are not swapchain dependent
    misuse,                 \* destroy calls on dead objects, create calls over live ones
    sizes,                  \* size() of the image, view, framebuffer and command buffer vectors
    call                    \* a helper function applied on its own: arguments and result

vars ==
    << pc, ctx, cleanupIdx, input, shouldClose, caps, formats, objs, res,
       m_swapChainExtent, m_swapChainImageFormat, swapGen, staleGens,
       uboExtent, inFlight, sem, retired, resignalled, frame, iter, created,
       destroyed, recreationTeardown, envChanged, oneShot, alive, misuse,
       sizes, call >>

\* The state of the engine: everything but the helper call.
engineVars ==
    << pc, ctx, cleanupIdx, input, shouldClose, caps, formats, objs, res,
       m_swapChainExtent, m_swapChainImageFormat, swapGen, staleGens,
       uboExtent, inFlight, sem, retired, resignalled, frame, iter, created,
       destroyed, recreationTeardown, envChanged, oneShot, alive, misuse,
       sizes >>

\* No one-shot command buffer exists.
NoOneShot == [todo |-> << >>, state |-> "none"]

\* No helper function is being applied on its own.
NoCall == [fn |-> "none", arg |-> "none", done |-> FALSE, ret |-> "none"]

syncVars == << sem, retired, resignalled >>

envVars == << input, shouldClose, caps, formats >>

lifeVars == << alive, misuse >>

\* The record of an iteration that starts while swapchain generation g is
\* live: the results the Vulkan calls returned, how often each was made, how
\* many recreations finished, what the Input singleton held when the resize
\* check read it, which swapchain the image was acquired from, and the
\* local imageIndex of update (-1 while it holds no index that a later
\* statement reads).
NewIteration(g) ==
    [startGen |-> g,
     acquire |-> "none", submit |-> "none", present |-> "none",
     acquires |-> 0, submits |-> 0, presents |-> 0, recreations |-> 0,
     uboWritten |-> FALSE, resizeChecked |-> FALSE,
     resizeInput |-> [shouldResize |-> FALSE, width |-> 0, height |-> 0],
     acquiredGen |-> 0, acquiredExtent |-> NoExtent,
     imageIndex |-> -1]

(***************************************************************************)
(* Pure helpers of RenderSystem.cpp.                                       *)
(***************************************************************************)
\* chooseSwapSurfaceFormat that looks at the format only, not the colour space.
chooseSwapSurfaceFormat_formatOnly(availableFormats) ==
    IF Len(availableFormats) = 1 /\ availableFormats[1].format = "UNDEFINED"
    THEN PreferredFormat
    ELSE IF \E i \in 1..Len(availableFormats) :
                availableFormats[i].format = PreferredFormat.format
         THEN LET i == CHOOSE j \in 1..Len(availableFormats) :
                          /\ availableFormats[j].format = PreferredFormat.format
                          /\ \A k \in 1..(j - 1) :
                                availableFormats[k].format # PreferredFormat.format
              IN  availableFormats[i]
         ELSE availableFormats[1]

\* chooseSwapSurfaceFormat: the preferred pair for a single undefined entry,
\* else the first entry that is the preferred pair, else the first entry.
chooseSwapSurfaceFormat(availableFormats) ==
    IF Len(availableFormats) = 1 /\ availableFormats[1].format = "UNDEFINED"
    THEN PreferredFormat
    ELSE IF \E i \in 1..Len(availableFormats) : availableFormats[i] = PreferredFormat
         THEN PreferredFormat
         ELSE availableFormats[1]

\* chooseSwapExtent with a result that depends on how many swapchains were
\* created before.
chooseSwapExtent_byGeneration(capabilities, width, height) ==
    Extent(swapGen + 1, swapGen + 1)

\* chooseSwapExtent: the surface's current extent unless its width is the
\* sentinel; then the desired size (narrowed to 32 bits) clamped to the
\* surface's bounds.
chooseSwapExtent(capabilities, width, height) ==
    IF capabilities.currentExtent.width # UINT32_MAX
    THEN capabilities.currentExtent
    ELSE Extent(Max(capabilities.minImageExtent.width,
                    Min(capabilities.maxImageExtent.width, width % (UINT32_MAX + 1))),
                Max(capabilities.minImageExtent.height,
                    Min(capabilities.maxImageExtent.height, height % (UINT32_MAX + 1))))

\* The loop of chooseSwapPresentMode from entry i on, bestMode being the
\* local variable: mailbox is returned where it is met, immediate is
\* remembered.
RECURSIVE presentModeLoop(_, _, _)
presentModeLoop(availablePresentModes, i, bestMode) ==
    IF i > Len(availablePresentModes) THEN bestMode
    ELSE IF availablePresentModes[i] = "MAILBOX" THEN availablePresentModes[i]
    ELSE presentModeLoop(availablePresentModes, i + 1,
                         IF availablePresentModes[i] = "IMMEDIATE"
                         THEN availablePresentModes[i]
                         ELSE bestMode)

\* chooseSwapPresentMode that returns the first of mailbox and immediate it
\* meets.
chooseSwapPresentMode_firstMet(availablePresentModes) ==
    LET hits == { i \in 1..Len(availablePresentModes) :
                     availablePresentModes[i] \in {"MAILBOX", "IMMEDIATE"} }
    IN  IF hits = {} THEN "FIFO"
        ELSE availablePresentModes[CHOOSE i \in hits : \A j \in hits : i <= j]

\* chooseSwapPresentMode: bestMode starts as FIFO.
chooseSwapPresentMode(availablePresentModes) ==
    presentModeLoop(availablePresentModes, 1, "FIFO")

\* imageCount without the test that maxImageCount is not 0.
imageCount_noUnboundedTest(capabilities) ==
    LET count == (capabilities.minImageCount + 1) % (UINT32_MAX + 1)
    IN  IF count > capabilities.maxImageCount
        THEN capabilities.maxImageCount
        ELSE count

\* imageCount without the cap at maxImageCount.
imageCount_uncapped(capabilities) ==
    (capabilities.minImageCount + 1) % (UINT32_MAX + 1)

\* The local imageCount of createSwapChain, the minImageCount it requests:
\* the unsigned sum minImageCount + 1, replaced by maxImageCount if that is
\* not 0 and the sum is above it.
imageCount(capabilities) ==
    LET count == (capabilities.minImageCount + 1) % (UINT32_MAX + 1)
    IN  IF capabilities.maxImageCount > 0 /\ count > capabilities.maxImageCount
        THEN capabilities.maxImageCount
        ELSE count

(***************************************************************************)
(* Device selection.  A physical device is what the queries report about   *)
(* it: its queue families (queueCount, graphics bit, present support for   *)
(* m_surface), its extensions, its surface formats and present modes and   *)
(* the samplerAnisotropy feature.                                          *)
(***************************************************************************)
\* RenderSystem::m_deviceExtensions.
m_deviceExtensions == {"VK_KHR_swapchain"}

\* VK_NULL_HANDLE; the handle of a device is its position in the enumeration.
VK_NULL_HANDLE == 0

\* QueueFamilyIndices as default constructed.
NoQueueFamilies == [graphicsFamily |-> -1, presentFamily |-> -1]

\* QueueFamilyIndices::isComplete.
isComplete(indices) == indices.graphicsFamily >= 0 /\ indices.presentFamily >= 0

\* The loop of findQueueFamilies without the break: every family is looked
\* at.
RECURSIVE findQueueFamiliesLoop_noBreak(_, _, _)
findQueueFamiliesLoop_noBreak(queueFamilies, i, indices) ==
    IF i >= Len(queueFamilies) THEN indices
    ELSE LET queueFamily == queueFamilies[i + 1]
         IN  findQueueFamiliesLoop_noBreak(queueFamilies, i + 1,
                 [graphicsFamily |->
                      IF queueFamily.queueCount > 0 /\ queueFamily.graphics
                      THEN i ELSE indices.graphicsFamily,
                  presentFamily |->
                      IF queueFamily.queueCount > 0 /\ queueFamily.presentSupport
                      THEN i ELSE indices.presentFamily])

\* The loop of findQueueFamilies from family i (counted from 0) on.
RECURSIVE findQueueFamiliesLoop(_, _, _)
findQueueFamiliesLoop(queueFamilies, i, indices) ==
    IF i >= Len(queueFamilies) THEN indices
    ELSE LET queueFamily == queueFamilies[i + 1]
             found ==
                 [graphicsFamily |->
                      IF queueFamily.queueCount > 0 /\ queueFamily.graphics
                      THEN i ELSE indices.graphicsFamily,
                  presentFamily |->
                      IF queueFamily.queueCount > 0 /\ queueFamily.presentSupport
                      THEN i ELSE indices.presentFamily]
         IN  IF isComplete(found) THEN found
             ELSE findQueueFamiliesLoop(queueFamilies, i + 1, found)

\* findQueueFamilies.
findQueueFamilies(device) ==
    findQueueFamiliesLoop(device.queueFamilies, 0, NoQueueFamilies)

\* checkDeviceExtensionSupport: every available extension is erased from
\* the required ones; none must be left.
checkDeviceExtensionSupport(device) ==
    m_deviceExtensions \ device.extensions = {}

\* isDeviceSuitable without the test of the samplerAnisotropy feature.
isDeviceSuitable_noAnisotropy(device) ==
    /\ isComplete(findQueueFamilies(device))
    /\ checkDeviceExtensionSupport(device)
    /\ device.formats # << >> /\ device.presentModes # << >>

\* isDeviceSuitable.
isDeviceSuitable(device) ==
    LET indices == findQueueFamilies(device)
        extensionsSupported == checkDeviceExtensionSupport(device)
        swapChainAdequate ==
            IF extensionsSupported
            THEN device.formats # << >> /\ device.presentModes # << >>
            ELSE FALSE
    IN  /\ isComplete(indices)
        /\ extensionsSupported
        /\ swapChainAdequate
        /\ device.samplerAnisotropy

\* The loop of pickPhysicalDevice from device i on: the handle of the first
\* suitable device, or what m_physicalDevice held before.
RECURSIVE pickPhysicalDeviceLoop(_, _, _)
pickPhysicalDeviceLoop(devices, i, m_physicalDevice) ==
    IF i > Len(devices) THEN m_physicalDevice
    ELSE IF isDeviceSuitable(devices[i]) THEN i
    ELSE pickPhysicalDeviceLoop(devices, i + 1, m_physicalDevice)

\* pickPhysicalDevice without the break: the last suitable device stays.
pickPhysicalDevice_noBreak(devices) ==
    LET suitable == { i \in 1..Len(devices) : isDeviceSuitable(devices[i]) }
    IN  IF suitable = {}
        THEN [aborted |-> TRUE, m_physicalDevice |-> VK_NULL_HANDLE]
        ELSE [aborted |-> FALSE,
              m_physicalDevice |-> CHOOSE i \in suitable : \A j \in suitable : j <= i]

\* pickPhysicalDevice: LOG_CRITICAL for an empty enumeration, the loop, and
\* LOG_CRITICAL if m_physicalDevice is still VK_NULL_HANDLE.
pickPhysicalDevice(devices) ==
    IF Len(devices) = 0
    THEN [aborted |-> TRUE, m_physicalDevice |-> VK_NULL_HANDLE]
    ELSE LET picked == pickPhysicalDeviceLoop(devices, 1, VK_NULL_HANDLE)
         IN  [aborted |-> picked = VK_NULL_HANDLE, m_physicalDevice |-> picked]

\* queueCreateInfos with one entry for the graphics and one for the present
\* family, equal or not.
queueCreateInfos_noSet(indices) ==
    << [queueFamilyIndex |-> indices.graphicsFamily, queueCount |-> 1],
       [queueFamilyIndex |-> indices.presentFamily, queueCount |-> 1] >>

\* The queueCreateInfos of createLogicalDevice: one entry per element of the
\* std::set of the two family indices, in ascending order.
queueCreateInfos(indices) ==
    LET uniqueQueueFamilies == {indices.graphicsFamily, indices.presentFamily}
        lo == Min(indices.graphicsFamily, indices.presentFamily)
        hi == Max(indices.graphicsFamily, indices.presentFamily)
    IN  IF Cardinality(uniqueQueueFamilies) = 1
        THEN << [queueFamilyIndex |-> lo, queueCount |-> 1] >>
        ELSE << [queueFamilyIndex |-> lo, queueCount |-> 1],
                [queueFamilyIndex |-> hi, queueCount |-> 1] >>

(***************************************************************************)
(* The logging macros and the checks of the creation calls.                *)
(***************************************************************************)
\* Expansion with a LOG_CRITICAL that only logs.
Expansion_criticalOnlyLogs(macro) ==
    CASE macro = "LOG_CRITICAL" -> << "critical" >>
      [] macro = "LOG_ERROR" -> << "error" >>
      [] macro = "LOG_INFO" -> << "info" >>
      [] macro = "none" -> << >>

\* The statements a logging macro expands to ("none": no macro is there).
Expansion(macro) ==
    CASE macro = "LOG_CRITICAL" -> << "critical", "abort" >>
      [] macro = "LOG_ERROR" -> << "error" >>
      [] macro = "LOG_INFO" -> << "info" >>
      [] macro = "none" -> << >>

\* The statements a sequence of macros expands to.
RECURSIVE ExpandAll(_)
ExpandAll(macros) ==
    IF macros = << >> THEN << >>
    ELSE Expansion(Head(macros)) \o ExpandAll(Tail(macros))

\* What a statement sequence executes: std::abort ends the process.
RECURSIVE Execute(_)
Execute(statements) ==
    IF statements = << >> THEN << >>
    ELSE IF Head(statements) = "abort" THEN << "abort" >>
    ELSE << Head(statements) >> \o Execute(Tail(statements))

\* A place where the code logs: the function, how the block with the macros
\* is guarded ("none": it is not), and the macros of the block.
LogSite(fn, guard, macros) == [fn |-> fn, guard |-> guard, macros |-> macros]

LogSites ==
    { LogSite(f, "if", << "LOG_CRITICAL" >>) :
        f \in { "createInstance", "createSurface", "pickPhysicalDevice",
                "createLogicalDevice", "createMemoryAllocator",
                "createSwapChain", "createRenderPass",
                "createDescriptorSetLayout", "createGraphicsPipeline",
                "createFramebuffers", "createCommandPools",
                "createTextureImage", "createTextureSampler",
                "createDescriptorPools", "createDescriptorSet",
                "createCommandBuffers", "createSemaphores", "createBuffer",
                "createImage", "createImageView", "createShaderModule",
                "createDebugCallback", "Mesh::loadModel",
                "WindowSystem::init", "Device::init" } }
    \cup { LogSite("transitionImageLayout", "else", << "LOG_CRITICAL" >>),
           LogSite("findMemoryType", "none", << "LOG_CRITICAL" >>),
           LogSite("findSupportedFormat", "none", << "LOG_CRITICAL" >>),
           LogSite("readShaderFile", "if", << "LOG_ERROR", "LOG_CRITICAL" >>),
           LogSite("createCommandBuffers", "if", << "LOG_ERROR" >>),
           LogSite("debugCallback", "none", << "LOG_ERROR" >>),
           LogSite("WindowSystem::init", "none", << "LOG_ERROR" >>),
           LogSite("WindowSystem::init", "none", << "LOG_INFO" >>) }

\* Control reaches a log site; `taken` says whether its guard lets the
\* block run.  What executes, up to the statement after the site.
logAt(site, taken) ==
    Execute((IF site.guard = "none" \/ taken
             THEN ExpandAll(site.macros) ELSE << >>) \o << "next" >>)

\* A creation or allocation call of init or of recreateSwapChain: the
\* function, the call, and the macro in the block that tests its result
\* ("none": the result is not looked at).
CreationCall(fn, api, onFailure) ==
    [fn |-> fn, api |-> api, onFailure |-> onFailure]

CreationCalls ==
    { CreationCall("createInstance", "vkCreateInstance", "LOG_CRITICAL"),
      CreationCall("createDebugCallback", "vkCreateDebugReportCallbackEXT",
                   "LOG_CRITICAL"),
      CreationCall("createSurface", "glfwCreateWindowSurface", "LOG_CRITICAL"),
      CreationCall("createLogicalDevice", "vkCreateDevice", "LOG_CRITICAL"),
      CreationCall("createMemoryAllocator", "vmaCreateAllocator",
                   "LOG_CRITICAL"),
      CreationCall("createSwapChain", "vkCreateSwapchainKHR", "LOG_CRITICAL"),
      CreationCall("createImageView", "vkCreateImageView", "LOG_CRITICAL"),
      CreationCall("createRenderPass", "vkCreateRenderPass", "LOG_CRITICAL"),
      CreationCall("createDescriptorSetLayout", "vkCreateDescriptorSetLayout",
                   "LOG_CRITICAL"),
      CreationCall("createShaderModule", "vkCreateShaderModule",
                   "LOG_CRITICAL"),
      CreationCall("createGraphicsPipeline", "vkCreatePipelineLayout",
                   "LOG_CRITICAL"),
      CreationCall("createGraphicsPipeline", "vkCreateGraphicsPipelines",
                   "LOG_CRITICAL"),
      CreationCall("createFramebuffers", "vkCreateFramebuffer", "LOG_CRITICAL"),
      CreationCall("createCommandPools", "vkCreateCommandPool", "LOG_CRITICAL"),
      CreationCall("createImage", "vmaCreateImage", "LOG_CRITICAL"),
      CreationCall("createBuffer", "vmaCreateBuffer", "LOG_CRITICAL"),
      CreationCall("createTextureSampler", "vkCreateSampler", "LOG_CRITICAL"),
      CreationCall("createDescriptorPools", "vkCreateDescriptorPool",
                   "LOG_CRITICAL"),
      CreationCall("createDescriptorSet", "vkAllocateDescriptorSets",
                   "LOG_CRITICAL"),
      CreationCall("createCommandBuffers", "vkAllocateCommandBuffers",
                   "LOG_ERROR"),
      CreationCall("createSemaphores", "vkCreateSemaphore", "LOG_CRITICAL"),
      CreationCall("createAndBeginCommandBuffer", "vkAllocateCommandBuffers",
                   "none") }

\* What a creation call may return.
CreationResults ==
    {"VK_SUCCESS", "VK_ERROR_OUT_OF_HOST_MEMORY", "VK_ERROR_OUT_OF_DEVICE_MEMORY"}

\* A creation call returns `result`: what executes, up to the statement
\* after the test of the result.
createAt(creation, result) ==
    Execute((IF result # "VK_SUCCESS"
             THEN Expansion(creation.onFailure) ELSE << >>) \o << "next" >>)

(***************************************************************************)
(* Image layout transitions and the depth format.                          *)
(***************************************************************************)
\* hasStencilComponent.
hasStencilComponent(format) ==
    format \in {"D32_SFLOAT_S8_UINT", "D24_UNORM_S8_UINT"}

\* The access masks and pipeline stages transitionImageLayout chooses for a
\* pair of layouts, or that it has none for the pair.
barrierStages(oldLayout, newLayout) ==
    IF oldLayout = "UNDEFINED" /\ newLayout = "TRANSFER_DST_OPTIMAL"
    THEN [supported |-> TRUE,
          srcAccessMask |-> {}, dstAccessMask |-> {"TRANSFER_WRITE"},
          sourceStage |-> "TOP_OF_PIPE", destinationStage |-> "TRANSFER"]
    ELSE IF oldLayout = "TRANSFER_DST_OPTIMAL"
            /\ newLayout = "SHADER_READ_ONLY_OPTIMAL"
    THEN [supported |-> TRUE,
          srcAccessMask |-> {"TRANSFER_WRITE"}, dstAccessMask |-> {"SHADER_READ"},
          sourceStage |-> "TRANSFER", destinationStage |-> "FRAGMENT_SHADER"]
    ELSE IF oldLayout = "UNDEFINED"
            /\ newLayout = "DEPTH_STENCIL_ATTACHMENT_OPTIMAL"
    THEN [supported |-> TRUE,
          srcAccessMask |-> {},
          dstAccessMask |-> {"DEPTH_STENCIL_ATTACHMENT_READ",
                             "DEPTH_STENCIL_ATTACHMENT_WRITE"},
          sourceStage |-> "TOP_OF_PIPE",
          destinationStage |-> "EARLY_FRAGMENT_TESTS"]
    ELSE [supported |-> FALSE,
          srcAccessMask |-> {}, dstAccessMask |-> {},
          sourceStage |-> "none", destinationStage |-> "none"]

\* The VkImageMemoryBarrier and the vkCmdPipelineBarrier that records it.
PipelineBarrier(format, oldLayout, newLayout) ==
    LET stages == barrierStages(oldLayout, newLayout)
    IN  [cmd |-> "vkCmdPipelineBarrier",
         oldLayout |-> oldLayout, newLayout |-> newLayout,
         aspectMask |->
             IF newLayout = "DEPTH_STENCIL_ATTACHMENT_OPTIMAL"
             THEN {"DEPTH"} \cup
                  (IF hasStencilComponent(format) THEN {"STENCIL"} ELSE {})
             ELSE {"COLOR"},
         srcAccessMask |-> stages.srcAccessMask,
         dstAccessMask |-> stages.dstAccessMask,
         sourceStage |-> stages.sourceStage,
         destinationStage |-> stages.destinationStage]

\* transitionImageLayout with a final else that logs and goes on.
transitionImageLayout_noAbort(format, oldLayout, newLayout) ==
    [aborted |-> FALSE,
     commands |-> << PipelineBarrier(format, oldLayout, newLayout) >>,
     submitted |-> TRUE]

\* transitionImageLayout: what the one-shot command buffer has recorded and
\* whether endAndSubmitCommandBuffer was reached, or the abort in the final
\* else.
transitionImageLayout(format, oldLayout, newLayout) ==
    IF barrierStages(oldLayout, newLayout).supported
    THEN [aborted |-> FALSE,
          commands |-> << PipelineBarrier(format, oldLayout, newLayout) >>,
          submitted |-> TRUE]
    ELSE [aborted |-> TRUE, commands |-> << >>, submitted |-> FALSE]

\* The candidates of findDepthFormat, in order.
DepthFormats == << "D32_SFLOAT", "D32_SFLOAT_S8_UINT", "D24_UNORM_S8_UINT" >>

\* findSupportedFormat from candidate i on; props is what
\* vkGetPhysicalDeviceFormatProperties reports for each format.
RECURSIVE findSupportedFormat(_, _, _, _, _)
findSupportedFormat(candidates, i, tiling, features, props) ==
    IF i > Len(candidates) THEN [aborted |-> TRUE, format |-> "none"]
    ELSE LET format == candidates[i]
         IN  IF tiling = "LINEAR"
                /\ props[format].linearTilingFeatures \cap features = features
             THEN [aborted |-> FALSE, format |-> format]
             ELSE IF tiling = "OPTIMAL"
                     /\ props[format].optimalTilingFeatures \cap features
                          = features
             THEN [aborted |-> FALSE, format |-> format]
             ELSE findSupportedFormat(candidates, i + 1, tiling, features, props)

\* findDepthFormat asking for linear tiling.
findDepthFormat_linear(props) ==
    findSupportedFormat(DepthFormats, 1, "LINEAR",
                        {"DEPTH_STENCIL_ATTACHMENT"}, props)

\* findDepthFormat.
findDepthFormat(props) ==
    findSupportedFormat(DepthFormats, 1, "OPTIMAL",
                        {"DEPTH_STENCIL_ATTACHMENT"}, props)

(***************************************************************************)
(* Mesh::loadModel.                                                        *)
(***************************************************************************)
\* The Vertex loadModel builds for an index of a shape: the position and
\* the texture coordinate the index refers to (counted from 0), white, the
\* v axis flipped.
MakeVertex(attrib, index) ==
    [pos |-> << attrib.vertices[3 * index.vertex_index + 1],
                attrib.vertices[3 * index.vertex_index + 2],
                attrib.vertices[3 * index.vertex_index + 3] >>,
     color |-> << 1, 1, 1 >>,
     texCoord |-> << attrib.texcoords[2 * index.texcoord_index + 1],
                     1 - attrib.texcoords[2 * index.texcoord_index + 2] >>]

\* Vertex::operator==.
VertexEquals(lhs, rhs) ==
    lhs.pos = rhs.pos /\ lhs.color = rhs.color /\ lhs.texCoord = rhs.texCoord

\* uniqueVertices.count(vertex) and uniqueVertices[vertex]; uniqueVertices
\* is the set of its (vertex, index) entries.
Count(uniqueVertices, vertex) ==
    Cardinality({ e \in uniqueVertices : VertexEquals(e.key, vertex) })

Lookup(uniqueVertices, vertex) ==
    (CHOOSE e \in uniqueVertices : VertexEquals(e.key, vertex)).value

\* The loop body with the index of the newest vertex appended for a vertex
\* that is known already.
addIndex_newestIndex(mesh, vertex) ==
    LET isNew == Count(mesh.uniqueVertices, vertex) = 0
        vertices == IF isNew THEN Append(mesh.vertices, vertex)
                    ELSE mesh.vertices
    IN  [vertices |-> vertices,
         indices |-> Append(mesh.indices, Len(vertices) - 1),
         uniqueVertices |->
             IF isNew
             THEN mesh.uniqueVertices
                  \cup {[key |-> vertex, value |-> Len(mesh.vertices)]}
             ELSE mesh.uniqueVertices]

\* The loop body with every vertex appended, known or not.
addIndex_noLookup(mesh, vertex) ==
    [vertices |-> Append(mesh.vertices, vertex),
     indices |-> Append(mesh.indices, Len(mesh.vertices)),
     uniqueVertices |-> mesh.uniqueVertices]

\* The loop body of loadModel for one index: a vertex not seen before is
\* appended and entered in uniqueVertices; its index is appended.
addIndex(mesh, vertex) ==
    LET isNew == Count(mesh.uniqueVertices, vertex) = 0
        unique == IF isNew
                  THEN mesh.uniqueVertices
                       \cup {[key |-> vertex, value |-> Len(mesh.vertices)]}
                  ELSE mesh.uniqueVertices
    IN  [vertices |-> IF isNew THEN Append(mesh.vertices, vertex)
                      ELSE mesh.vertices,
         indices |-> Append(mesh.indices, Lookup(unique, vertex)),
         uniqueVertices |-> unique]

\* The two loops of loadModel from index i of shape s on.
RECURSIVE loadModelLoop(_, _, _, _, _)
loadModelLoop(attrib, shapes, s, i, mesh) ==
    IF s > Len(shapes) THEN mesh
    ELSE IF i > Len(shapes[s]) THEN loadModelLoop(attrib, shapes, s + 1, 1, mesh)
    ELSE loadModelLoop(attrib, shapes, s, i + 1,
                       addIndex(mesh, MakeVertex(attrib, shapes[s][i])))

\* Mesh::loadModel on what tinyobj::LoadObj has parsed: the vertices and the
\* indices of the Mesh.
loadModel(attrib, shapes) ==
    LET mesh == loadModelLoop(attrib, shapes, 1, 1,
                    [vertices |-> << >>, indices |-> << >>,
                     uniqueVertices |-> {}])
    IN  [vertices |-> mesh.vertices, indices |-> mesh.indices]

(***************************************************************************)
(* The statement sequences of init, recreateSwapChain and cleanupSwapChain.*)
(***************************************************************************)
\* RenderSystem::init, in call order.
InitSequence ==
    << "createInstance", "createSurface", "pickPhysicalDevice",
       "createLogicalDevice", "createMemoryAllocator",
       "createSwapChain", "createImageViews", "createRenderPass",
       "createDescriptorSetLayout", "createGraphicsPipeline",
       "createCommandPools", "createDepthAttachment", "createFramebuffers",
       "createTextureImage", "createTextureImageView", "createTextureSampler",
       "prepareMeshes", "createUniformBuffer", "createDescriptorPools",
       "createDescriptorSet", "createCommandBuffers", "createSemaphores" >>

\* RecreateSequence without the depth attachment.
RecreateSequence_noDepth ==
    << "createSwapChain", "createImageViews", "createRenderPass",
       "createGraphicsPipeline", "createFramebuffers", "createCommandBuffers" >>

\* RecreateSequence with the two semaphores created again at its end.
RecreateSequence_withSemaphores ==
    << "createSwapChain", "createImageViews", "createRenderPass",
       "createGraphicsPipeline", "createDepthAttachment", "createFramebuffers",
       "createCommandBuffers", "createSemaphores" >>

\* RenderSystem::recreateSwapChain after vkDeviceWaitIdle and cleanupSwapChain.
RecreateSequence ==
    << "createSwapChain", "createImageViews", "createRenderPass",
       "createGraphicsPipeline", "createDepthAttachment", "createFramebuffers",
       "createCommandBuffers" >>

\* CleanupSequence with the render pass destroyed before the pipeline.
CleanupSequence_renderPassFirst ==
    << "depthImageView", "depthImage", "framebuffers", "commandBuffers",
       "renderPass", "pipeline", "pipelineLayout", "imageViews", "swapChain" >>

\* RenderSystem::cleanupSwapChain: the objects in the order it destroys them.
CleanupSequence ==
    << "depthImageView", "depthImage", "framebuffers", "commandBuffers",
       "pipeline", "pipelineLayout", "renderPass", "imageViews", "swapChain" >>

\* The steps of init that create something not tied to the swapchain, and
\* what each leaves live.
OtherInitSteps ==
    { "createInstance", "createSurface", "pickPhysicalDevice",
      "createLogicalDevice", "createMemoryAllocator",
      "createDescriptorSetLayout", "createCommandPools", "createTextureImage",
      "createTextureImageView", "createTextureSampler", "prepareMeshes",
      "createUniformBuffer", "createDescriptorPools", "createDescriptorSet",
      "createSemaphores" }

\* The one-shot command buffers a create function uses, by what each
\* records: createDepthAttachment and createTextureImage call
\* transitionImageLayout and copyBufferToImage; prepareMeshes calls
\* createVertexBuffer and createIndexBuffer, each of which calls copyBuffer.
OneShotCommands(step) ==
    CASE step = "createDepthAttachment" -> << "transitionImageLayout" >>
      [] step = "createTextureImage" ->
             << "transitionImageLayout", "copyBufferToImage",
                "transitionImageLayout" >>
      [] step = "prepareMeshes" -> << "copyBuffer", "copyBuffer" >>
      [] OTHER -> << >>

\* The create function has made its objects and calls its first helper:
\* createAndBeginCommandBuffer allocates and begins a command buffer.
BeginOneShots(step) ==
    oneShot' = [todo |-> OneShotCommands(step), state |-> "recording"]

(***************************************************************************)
(* The objects that are not swapchain dependent, by the member or local    *)
(* that holds the handle.  The build modelled is the one without _DEBUG,   *)
(* which has no debug report callback.                                     *)
(***************************************************************************)
Create(o) == [op |-> "create", obj |-> o]

Destroy(o) == [op |-> "destroy", obj |-> o]

\* What a destroy call frees along with its argument: the descriptor set is
\* allocated from m_descriptorPool and is never freed on its own.
Owned(o) == IF o = "descriptorPool" THEN {"descriptorSet"} ELSE {}

\* One create or destroy call, on the record of live objects and misuses.
ApplyEffect(st, e) ==
    IF e.op = "create"
    THEN [alive |-> st.alive \cup {e.obj},
          misuse |-> IF e.obj \in st.alive
                     THEN st.misuse \cup {[kind |-> "createLive", obj |-> e.obj]}
                     ELSE st.misuse]
    ELSE [alive |-> st.alive \ ({e.obj} \cup Owned(e.obj)),
          misuse |-> IF e.obj \in st.alive
                     THEN st.misuse
                     ELSE st.misuse \cup {[kind |-> "destroyDead", obj |-> e.obj]}]

RECURSIVE RunEffects(_, _)
RunEffects(st, effects) ==
    IF effects = << >> THEN st
    ELSE RunEffects(ApplyEffect(st, Head(effects)), Tail(effects))

\* The create and destroy calls of a create function, cut at its one-shot
\* command buffers: Segments(step)[k] runs after k - 1 of them are freed.
Segments(step) ==
    CASE step = "createInstance" -> << << Create("instance") >> >>
      [] step = "createSurface" -> << << Create("surface") >> >>
      [] step = "createLogicalDevice" -> << << Create("device") >> >>
      [] step = "createMemoryAllocator" -> << << Create("allocator") >> >>
      [] step = "createDescriptorSetLayout" ->
             << << Create("descriptorSetLayout") >> >>
      [] step = "createGraphicsPipeline" ->
             << << Create("vertShaderModule"), Create("fragShaderModule"),
                   Destroy("fragShaderModule"), Destroy("vertShaderModule") >> >>
      [] step = "createCommandPools" ->
             << << Create("drawingCommandPool"),
                   Create("memoryTransferCommandPool") >> >>
      [] step = "createDepthAttachment" -> << << >>, << >> >>
      [] step = "createTextureImage" ->
             << << Create("stagingBuffer"), Create("textureImage") >>,
                << >>, << >>,
                << Destroy("stagingBuffer") >> >>
      [] step = "createTextureImageView" -> << << Create("textureImageView") >> >>
      [] step = "createTextureSampler" -> << << Create("textureSampler") >> >>
      [] step = "prepareMeshes" ->
             << << Create("stagingBuffer"), Create("mesh.vertexBuffer") >>,
                << Destroy("stagingBuffer"),
                   Create("stagingBuffer"), Create("mesh.indexBuffer") >>,
                << Destroy("stagingBuffer") >> >>
      [] step = "createUniformBuffer" -> << << Create("uniformBuffer") >> >>
      [] step = "createDescriptorPools" -> << << Create("descriptorPool") >> >>
      [] step = "createDescriptorSet" -> << << Create("descriptorSet") >> >>
      [] step = "createSemaphores" ->
             << << Create("imageAvailableSemaphore"),
                   Create("renderFinishedSemaphore") >> >>
      [] OTHER -> << << >> >>

\* The k-th segment of the create function `step` runs.
RunSegment(step, k) ==
    LET st == RunEffects([alive |-> alive, misuse |-> misuse], Segments(step)[k])
    IN  alive' = st.alive /\ misuse' = st.misuse

\* The handles a create function passes to the calls it makes, by the
\* member that holds each: swapchain-dependent objects by their name in
\* objs, the others by their name in alive.  createCommandBuffers binds
\* RenderSystem::m_vertexBuffer and RenderSystem::m_indexBuffer; prepareMeshes
\* fills mesh->vertexBuffer and mesh->indexBuffer, and no function assigns
\* the two members.
Uses(step) ==
    CASE step = "createInstance" -> {}
      [] step = "createSurface" -> { "instance", "window" }
      [] step = "pickPhysicalDevice" -> { "instance", "surface" }
      [] step = "createLogicalDevice" -> { "instance", "surface" }
      [] step = "createMemoryAllocator" -> { "device" }
      [] step = "createSwapChain" -> { "device", "surface" }
      [] step = "createImageViews" -> { "device", "swapChain" }
      [] step = "createRenderPass" -> { "device" }
      [] step = "createDescriptorSetLayout" -> { "device" }
      [] step = "createGraphicsPipeline" ->
             { "device", "descriptorSetLayout", "renderPass" }
      [] step = "createCommandPools" -> { "device", "surface" }
      [] step = "createDepthAttachment" ->
             { "device", "allocator", "memoryTransferCommandPool" }
      [] step = "createFramebuffers" ->
             { "device", "renderPass", "imageViews", "depthImageView" }
      [] step = "createTextureImage" ->
             { "device", "allocator", "memoryTransferCommandPool" }
      [] step = "createTextureImageView" -> { "device", "textureImage" }
      [] step = "createTextureSampler" -> { "device" }
      [] step = "prepareMeshes" ->
             { "device", "allocator", "memoryTransferCommandPool" }
      [] step = "createUniformBuffer" -> { "allocator" }
      [] step = "createDescriptorPools" -> { "device" }
      [] step = "createDescriptorSet" ->
             { "device", "descriptorPool", "descriptorSetLayout",
               "uniformBuffer", "textureImageView", "textureSampler" }
      [] step = "createCommandBuffers" ->
             { "device", "drawingCommandPool", "framebuffers", "renderPass",
               "pipeline", "pipelineLayout", "descriptorSet",
               "m_vertexBuffer", "m_indexBuffer" }
      [] step = "createSemaphores" -> { "device" }

\* The handle r refers to an object that was created and not yet destroyed.
IsLive(r) == IF r \in DOMAIN objs THEN objs[r].live ELSE r \in alive

\* ShutdownSequence with the device destroyed before the allocator.
ShutdownSequence_deviceFirst ==
    << "textureSampler", "textureImageView", "textureImage", "descriptorPool",
       "descriptorSetLayout", "mesh.indexBuffer", "mesh.vertexBuffer",
       "uniformBuffer", "renderFinishedSemaphore", "imageAvailableSemaphore",
       "memoryTransferCommandPool", "drawingCommandPool", "device", "allocator",
       "surface", "instance", "window" >>

\* ShutdownSequence with the texture sampler destroyed twice.
ShutdownSequence_samplerTwice ==
    << "textureSampler", "textureImageView", "textureImage", "descriptorPool",
       "descriptorSetLayout", "mesh.indexBuffer", "mesh.vertexBuffer",
       "uniformBuffer", "renderFinishedSemaphore", "imageAvailableSemaphore",
       "textureSampler",
       "memoryTransferCommandPool", "drawingCommandPool", "allocator", "device",
       "surface", "instance", "window" >>

\* RenderSystem::shutdown after cleanupSwapChain, then WindowSystem::shutdown:
\* the objects in the order they are destroyed.
ShutdownSequence ==
    << "textureSampler", "textureImageView", "textureImage", "descriptorPool",
       "descriptorSetLayout", "mesh.indexBuffer", "mesh.vertexBuffer",
       "uniformBuffer", "renderFinishedSemaphore", "imageAvailableSemaphore",
       "memoryTransferCommandPool", "drawingCommandPool", "allocator", "device",
       "surface", "instance", "window" >>

IndexOf(seq, x) == CHOOSE i \in 1..Len(seq) : seq[i] = x

\* ReturnTo with the frame retried after a recreation that follows present.
ReturnTo_retryFrame(c) ==
    CASE c = "init" -> "loop"
      [] c = "resize" -> "acquire"
      [] c = "acquire" -> "loop"
      [] c = "present" -> "acquire"

\* ReturnTo with the return after the out-of-date acquire missing: update
\* falls through to the submit.
ReturnTo_noReturn(c) ==
    CASE c = "init" -> "loop"
      [] c = "resize" -> "acquire"
      [] c = "acquire" -> "submit"
      [] c = "present" -> "queueWaitIdle"

\* Where control goes when the create sequence run for context c is over:
\* init returns to SolEngine::init and the loop starts; a recreation made by
\* the resize check falls through to the acquire; one made after an
\* out-of-date acquire returns from update; one made after present falls
\* through to vkQueueWaitIdle.
ReturnTo(c) ==
    CASE c = "init" -> "loop"
      [] c = "resize" -> "acquire"
      [] c = "acquire" -> "loop"
      [] c = "present" -> "queueWaitIdle"

\* The statement after `step` in the sequence context c is running.
NextStep(c, step) ==
    LET seq == IF c = "init" THEN InitSequence ELSE RecreateSequence
        i == IndexOf(seq, step)
    IN  IF i = Len(seq) THEN ReturnTo(c) ELSE seq[i + 1]

\* A create step finishes: move on, and count a finished recreation.
Advance(step) ==
    LET next == NextStep(ctx, step)
        last == next = ReturnTo(ctx)
    IN  /\ pc' = next
        /\ ctx' = IF last THEN "none" ELSE ctx
        /\ iter' = IF last /\ ctx # "init"
                   THEN [iter EXCEPT !.recreations = @ + 1]
                   ELSE iter

EngineInit ==
    /\ pc = "main"
    /\ ctx = "none"
    /\ cleanupIdx = 1
    /\ input \in { [shouldResize |-> FALSE, width |-> s.width, height |-> s.height] :
                     s \in WindowSizes }
    /\ shouldClose = FALSE
    /\ caps \in SurfaceCaps
    /\ formats \in FormatLists
    /\ objs = [o \in SwapChainObjects |-> NoObject]
    /\ res = {}
    /\ m_swapChainExtent = NoExtent
    /\ m_swapChainImageFormat = "none"
    /\ swapGen = 0
    /\ staleGens = {}
    /\ uboExtent = NoExtent
    /\ inFlight = {}
    /\ sem = [s \in Semaphores |-> FALSE]
    /\ retired = << >>
    /\ resignalled = {}
    /\ frame = 0
    /\ iter = NewIteration(0)
    /\ created = << >>
    /\ destroyed = << >>
    /\ recreationTeardown = << >>
    /\ envChanged = FALSE
    /\ oneShot = NoOneShot
    /\ alive = {}
    /\ misuse = {}
    /\ sizes = [v \in SizedVectors |-> 0]

Init == EngineInit /\ call = NoCall

(***************************************************************************)
(* main and SolEngine.                                                     *)
(***************************************************************************)
\* main -> SolEngine::init: the window is created, then RenderSystem::init runs.
SolEngine_init ==
    /\ pc = "main"
    /\ pc' = InitSequence[1]
    /\ ctx' = "init"
    /\ LET st == ApplyEffect([alive |-> alive, misuse |-> misuse], Create("window"))
       IN  alive' = st.alive /\ misuse' = st.misuse
    /\ UNCHANGED << cleanupIdx, envVars, objs, res, m_swapChainExtent,
                    m_swapChainImageFormat, swapGen, staleGens, uboExtent,
                    inFlight, syncVars, frame, iter, created, destroyed,
                    recreationTeardown, envChanged, oneShot, call, sizes >>

\* A create function of init that builds nothing swapchain dependent, up
\* to its return or to its first one-shot command buffer.
initStep ==
    /\ pc \in OtherInitSteps
    /\ oneShot = NoOneShot
    /\ res' = res \cup {pc}
    /\ RunSegment(pc, 1)
    /\ IF OneShotCommands(pc) = << >>
       THEN Advance(pc) /\ UNCHANGED oneShot
       ELSE BeginOneShots(pc) /\ UNCHANGED << pc, ctx, iter >>
    /\ UNCHANGED << cleanupIdx, envVars, objs, m_swapChainExtent,
                    m_swapChainImageFormat, swapGen, staleGens, uboExtent,
                    inFlight, syncVars, frame, created, destroyed,
                    recreationTeardown, envChanged, call, sizes >>

(***************************************************************************)
(* The create functions of the swapchain-dependent objects.                *)
(***************************************************************************)
\* createSwapChain: format and extent are chosen from what the surface
\* reports now and from the Input singleton's size; the new swapchain
\* replaces the handle in m_swapChain.
createSwapChain ==
    /\ pc = "createSwapChain"
    /\ LET surfaceFormat == chooseSwapSurfaceFormat(formats)
           extent == chooseSwapExtent(caps, input.width, input.height)
       IN  /\ objs' = [objs EXCEPT !["swapChain"] =
                          Built(swapGen + 1, extent, surfaceFormat.format)]
           /\ m_swapChainImageFormat' = surfaceFormat.format
           /\ m_swapChainExtent' = extent
    /\ \E reported \in ImageCounts :
          sizes' = [sizes EXCEPT !["swapChain"] = reported]
    /\ swapGen' = swapGen + 1
    /\ created' = << "swapChain" >>
    /\ Advance("createSwapChain")
    /\ envChanged' = FALSE
    /\ UNCHANGED << cleanupIdx, envVars, res, staleGens, uboExtent, inFlight,
                    syncVars, frame, destroyed, recreationTeardown, oneShot,
                    call, lifeVars >>

\* createImageViews: one view per image of m_swapChain, in m_swapChainImageFormat.
createImageViews ==
    /\ pc = "createImageViews"
    /\ objs' = [objs EXCEPT !["imageViews"] =
                   Built(objs["swapChain"].gen, NoExtent, m_swapChainImageFormat)]
    /\ created' = Append(created, "imageViews")
    /\ sizes' = [sizes EXCEPT !["imageViews"] = sizes["swapChain"]]
    /\ Advance("createImageViews")
    /\ UNCHANGED << cleanupIdx, envVars, res, m_swapChainExtent,
                    m_swapChainImageFormat, swapGen, staleGens, uboExtent,
                    inFlight, syncVars, frame, destroyed, recreationTeardown,
                    envChanged, oneShot, call,
                    lifeVars >>

\* createRenderPass: the colour attachment has m_swapChainImageFormat.
createRenderPass ==
    /\ pc = "createRenderPass"
    /\ objs' = [objs EXCEPT !["renderPass"] =
                   Built(objs["swapChain"].gen, NoExtent, m_swapChainImageFormat)]
    /\ created' = Append(created, "renderPass")
    /\ Advance("createRenderPass")
    /\ UNCHANGED << cleanupIdx, envVars, res, m_swapChainExtent,
                    m_swapChainImageFormat, swapGen, staleGens, uboExtent,
                    inFlight, syncVars, frame, destroyed, recreationTeardown,
                    envChanged, oneShot, call, sizes,
                    lifeVars >>

\* createGraphicsPipeline: the pipeline layout, then the pipeline with a
\* viewport and scissor of m_swapChainExtent, for m_renderPass.
createGraphicsPipeline ==
    /\ pc = "createGraphicsPipeline"
    /\ objs' = [objs EXCEPT
                   !["pipelineLayout"] =
                       Built(objs["swapChain"].gen, NoExtent, "none"),
                   !["pipeline"] =
                       Built(objs["renderPass"].gen, m_swapChainExtent,
                             objs["renderPass"].format)]
    /\ created' = created \o << "pipelineLayout", "pipeline" >>
    /\ RunSegment("createGraphicsPipeline", 1)
    /\ Advance("createGraphicsPipeline")
    /\ UNCHANGED << cleanupIdx, envVars, res, m_swapChainExtent,
                    m_swapChainImageFormat, swapGen, staleGens, uboExtent,
                    inFlight, syncVars, frame, destroyed, recreationTeardown,
                    envChanged, oneShot, call, sizes >>

\* createDepthAttachment: a depth image of m_swapChainExtent and its view,
\* then transitionImageLayout begins its command buffer.
createDepthAttachment ==
    /\ pc = "createDepthAttachment"
    /\ oneShot = NoOneShot
    /\ objs' = [objs EXCEPT
                   !["depthImage"] =
                       Built(objs["swapChain"].gen, m_swapChainExtent, "none"),
                   !["depthImageView"] =
                       Built(objs["swapChain"].gen, m_swapChainExtent, "none")]
    /\ created' = created \o << "depthImage", "depthImageView" >>
    /\ BeginOneShots("createDepthAttachment")
    /\ UNCHANGED << pc, ctx, iter, cleanupIdx, envVars, res,
                    m_swapChainExtent, m_swapChainImageFormat, swapGen,
                    staleGens, uboExtent, inFlight, syncVars, frame, destroyed,
                    recreationTeardown, envChanged, call, sizes,
                    lifeVars >>

\* createFramebuffers: one per image view, attaching the view and the depth
\* view, for m_renderPass, of m_swapChainExtent.
createFramebuffers ==
    /\ pc = "createFramebuffers"
    /\ objs' = [objs EXCEPT !["framebuffers"] =
                   Built(objs["imageViews"].gen, m_swapChainExtent,
                         objs["renderPass"].format)]
    /\ created' = Append(created, "framebuffers")
    /\ sizes' = [sizes EXCEPT !["framebuffers"] = sizes["imageViews"]]
    /\ Advance("createFramebuffers")
    /\ UNCHANGED << cleanupIdx, envVars, res, m_swapChainExtent,
                    m_swapChainImageFormat, swapGen, staleGens, uboExtent,
                    inFlight, syncVars, frame, destroyed, recreationTeardown,
                    envChanged, oneShot, call,
                    lifeVars >>

\* createCommandBuffers: one per framebuffer, recording a render pass over
\* m_swapChainExtent on that framebuffer with m_graphicsPipeline bound.
createCommandBuffers ==
    /\ pc = "createCommandBuffers"
    /\ objs' = [objs EXCEPT !["commandBuffers"] =
                   Built(objs["framebuffers"].gen, m_swapChainExtent,
                         objs["renderPass"].format)]
    /\ created' = Append(created, "commandBuffers")
    /\ sizes' = [sizes EXCEPT !["commandBuffers"] = CommandBufferCount(sizes)]
    /\ Advance("createCommandBuffers")
    /\ UNCHANGED << cleanupIdx, envVars, res, m_swapChainExtent,
                    m_swapChainImageFormat, swapGen, staleGens, uboExtent,
                    inFlight, syncVars, frame, destroyed, recreationTeardown,
                    envChanged, oneShot, call,
                    lifeVars >>

(***************************************************************************)
(* Waiting for the GPU.                                                    *)
(***************************************************************************)
\* DeviceIdle for a vkDeviceWaitIdle that returns at once.
DeviceIdle_noWait == TRUE

\* vkDeviceWaitIdle(m_device) returns: no queue of the device has work left.
DeviceIdle == inFlight \cap QueueOperations = {}

\* PresentQueueIdle for a vkQueueWaitIdle that returns at once.
PresentQueueIdle_noWait == TRUE

\* vkQueueWaitIdle(m_presentQueue) returns: the present queue has no work
\* left.  (Where the graphics and the present family are the same queue the
\* draw is work of that queue too; the present waits for the draw through
\* m_renderFinishedSemaphore in either case.)
PresentQueueIdle == "present" \notin inFlight

\* A signal of semaphore s is outstanding: s is signalled and not yet waited
\* on, or an operation that will signal it has not completed.
Outstanding(s) ==
    sem[s] \/ \E op \in inFlight : SignalSemaphore(op) = s

\* vkAcquireNextImageKHR hands out an image, and will signal the semaphore,
\* exactly when it returns a success code.
AcquireDelivers(result) == result \in {"VK_SUCCESS", "VK_SUBOPTIMAL_KHR"}

\* GraphicsQueueIdle for a vkQueueWaitIdle that returns at once.
GraphicsQueueIdle_noWait == TRUE

\* vkQueueWaitIdle(m_graphicsQueue) returns: the graphics queue has no work
\* left.
GraphicsQueueIdle == inFlight \cap {"draw", "oneShot"} = {}

(***************************************************************************)
(* One-shot command buffers.                                               *)
(***************************************************************************)
\* endAndSubmitCommandBuffer up to its wait: the commands are recorded, the
\* command buffer is ended and submitted to m_graphicsQueue.
endAndSubmitCommandBuffer ==
    /\ oneShot.state = "recording"
    /\ oneShot' = [oneShot EXCEPT !.state = "submitted"]
    /\ inFlight' = inFlight \cup {"oneShot"}
    /\ UNCHANGED << pc, ctx, cleanupIdx, envVars, objs, res,
                    m_swapChainExtent, m_swapChainImageFormat, swapGen,
                    staleGens, uboExtent, syncVars, frame, iter, created,
                    destroyed, recreationTeardown, envChanged, call, sizes,
                    lifeVars >>

\* The rest of endAndSubmitCommandBuffer: vkQueueWaitIdle(m_graphicsQueue)
\* returns and the command buffer is freed.  The create function then
\* begins its next one-shot command buffer, or returns.
freeCommandBuffer ==
    /\ oneShot.state = "submitted"
    /\ GraphicsQueueIdle
    /\ RunSegment(pc, Len(OneShotCommands(pc)) - Len(oneShot.todo) + 2)
    /\ IF Len(oneShot.todo) = 1
       THEN oneShot' = NoOneShot /\ Advance(pc)
       ELSE /\ oneShot' = [todo |-> Tail(oneShot.todo), state |-> "recording"]
            /\ UNCHANGED << pc, ctx, iter >>
    /\ UNCHANGED << cleanupIdx, envVars, objs, res, m_swapChainExtent,
                    m_swapChainImageFormat, swapGen, staleGens, uboExtent,
                    inFlight, syncVars, frame, created, destroyed,
                    recreationTeardown, envChanged, call, sizes >>

(***************************************************************************)
(* recreateSwapChain and cleanupSwapChain.                                 *)
(***************************************************************************)
\* recreateSwapChain, first statement: vkDeviceWaitIdle returns once the GPU
\* has retired everything; cleanupSwapChain is entered.
recreateSwapChain ==
    /\ pc = "recreateSwapChain"
    /\ DeviceIdle
    /\ pc' = "cleanupSwapChain"
    /\ cleanupIdx' = 1
    /\ destroyed' = << >>
    /\ UNCHANGED << ctx, envVars, objs, res, m_swapChainExtent,
                    m_swapChainImageFormat, swapGen, staleGens, uboExtent,
                    inFlight, syncVars, frame, iter, created,
                    recreationTeardown, envChanged, oneShot, call, sizes,
                    lifeVars >>

\* AfterCleanup for a cleanupSwapChain that is always followed by the
\* create sequence.
AfterCleanup_alwaysRecreate(c) == RecreateSequence[1]

\* The statement after the call of cleanupSwapChain: recreateSwapChain goes
\* on to createSwapChain, shutdown to the rest of its teardown.
AfterCleanup(c) == IF c = "shutdown" THEN "shutdownRest" ELSE RecreateSequence[1]

\* cleanupSwapChain, one destroy call: the next object of CleanupSequence.
cleanupSwapChain ==
    /\ pc = "cleanupSwapChain"
    /\ objs' = [objs EXCEPT ![CleanupSequence[cleanupIdx]] = NoObject]
    /\ destroyed' = Append(destroyed, CleanupSequence[cleanupIdx])
    /\ misuse' = IF objs[CleanupSequence[cleanupIdx]].live THEN misuse
                 ELSE misuse \cup {[kind |-> "destroyDead",
                                    obj |-> CleanupSequence[cleanupIdx]]}
    /\ IF cleanupIdx < Len(CleanupSequence)
       THEN /\ cleanupIdx' = cleanupIdx + 1
            /\ pc' = pc
            /\ recreationTeardown' = recreationTeardown
       ELSE /\ cleanupIdx' = 1
            /\ pc' = AfterCleanup(ctx)
            /\ recreationTeardown' = IF ctx = "shutdown" THEN recreationTeardown
                                     ELSE destroyed'
    /\ UNCHANGED << ctx, envVars, res, m_swapChainExtent,
                    m_swapChainImageFormat, swapGen, staleGens, uboExtent,
                    inFlight, syncVars, frame, iter, created, envChanged,
                    oneShot, call, sizes, alive >>

(***************************************************************************)
(* The frame loop: SolEngine::update and RenderSystem::update.             *)
(***************************************************************************)
\* ResizeWanted without the tests of the size.
ResizeWanted_flagOnly(in) == in.shouldResize

\* The if at the head of RenderSystem::update, after the uniform buffer write.
ResizeWanted(in) == in.shouldResize /\ in.width > 0 /\ in.height > 0

\* AcquireOutcome with a suboptimal acquire handled like an out-of-date one.
AcquireOutcome_suboptimalRecreates(result) ==
    IF result = "VK_ERROR_OUT_OF_DATE_KHR" \/ result = "VK_SUBOPTIMAL_KHR"
    THEN "recreate"
    ELSE IF result # "VK_SUCCESS" THEN "abort"
    ELSE "continue"

\* What RenderSystem::update does with the result of vkAcquireNextImageKHR.
AcquireOutcome(result) ==
    IF result = "VK_ERROR_OUT_OF_DATE_KHR" THEN "recreate"
    ELSE IF result # "VK_SUCCESS" /\ result # "VK_SUBOPTIMAL_KHR" THEN "abort"
    ELSE "continue"

\* SubmitOutcome with the failure ignored.
SubmitOutcome_ignored(result) == "continue"

\* What RenderSystem::update does with the result of vkQueueSubmit.
SubmitOutcome(result) == IF result # "VK_SUCCESS" THEN "abort" ELSE "continue"

\* PresentOutcome with the suboptimal test missing.
PresentOutcome_noSuboptimal(result) ==
    IF result = "VK_ERROR_OUT_OF_DATE_KHR" THEN "recreate"
    ELSE IF result # "VK_SUCCESS" /\ result # "VK_SUBOPTIMAL_KHR" THEN "abort"
    ELSE "continue"

\* PresentOutcome with the out-of-date test missing.
PresentOutcome_noOutOfDate(result) ==
    IF result = "VK_SUBOPTIMAL_KHR" THEN "recreate"
    ELSE IF result # "VK_SUCCESS" /\ result # "VK_ERROR_OUT_OF_DATE_KHR" THEN "abort"
    ELSE "continue"

\* What RenderSystem::update does with the result of vkQueuePresentKHR.
PresentOutcome(result) ==
    IF result = "VK_ERROR_OUT_OF_DATE_KHR" \/ result = "VK_SUBOPTIMAL_KHR"
    THEN "recreate"
    ELSE IF result # "VK_SUCCESS" THEN "abort"
    ELSE "continue"

\* LoopExit for an update() that returns right after the loop.
LoopExit_noWait == "shutdown"

\* The statement of SolEngine::update after the while loop.
LoopExit == "waitDeviceIdle"

\* while (!m_windowSystem.shouldClose()): a new iteration, or leave the loop.
SolEngine_update ==
    /\ pc = "loop"
    /\ IF shouldClose
       THEN /\ pc' = LoopExit
            /\ UNCHANGED << frame, iter, retired >>
       ELSE /\ pc' = "glfwPollEvents"
            /\ frame' = frame + 1
            /\ iter' = NewIteration(objs["swapChain"].gen)
            /\ retired' = << >>
    /\ UNCHANGED << ctx, cleanupIdx, envVars, objs, res, m_swapChainExtent,
                    m_swapChainImageFormat, swapGen, staleGens, uboExtent,
                    inFlight, sem, resignalled, created, destroyed,
                    recreationTeardown, envChanged, oneShot, call, sizes,
                    lifeVars >>

\* glfwPollEvents: the window may have been resized (the size callback sets
\* the Input singleton), a close may have been requested, and the surface
\* may report other capabilities and formats from now on.
glfwPollEvents ==
    /\ pc = "glfwPollEvents"
    /\ input' \in {input} \cup
                  { [shouldResize |-> TRUE, width |-> s.width, height |-> s.height] :
                      s \in WindowSizes }
    /\ shouldClose' \in IF frame >= MaxFrames THEN {TRUE} ELSE {FALSE, TRUE}
    /\ caps' \in SurfaceCaps
    /\ formats' \in FormatLists
    /\ envChanged' = ( \/ envChanged
                       \/ input'.width # input.width
                       \/ input'.height # input.height
                       \/ caps' # caps
                       \/ formats' # formats )
    /\ pc' = "updateUniformBuffer"
    /\ UNCHANGED << ctx, cleanupIdx, objs, res, m_swapChainExtent,
                    m_swapChainImageFormat, swapGen, staleGens, uboExtent,
                    inFlight, syncVars, frame, iter, created, destroyed,
                    recreationTeardown, oneShot, call, sizes,
                    lifeVars >>

\* updateUniformBuffer: the projection is computed from m_swapChainExtent
\* and copied into the mapped uniform buffer.
updateUniformBuffer ==
    /\ pc = "updateUniformBuffer"
    /\ uboExtent' = m_swapChainExtent
    /\ iter' = [iter EXCEPT !.uboWritten = TRUE]
    /\ pc' = "resizeCheck"
    /\ UNCHANGED << ctx, cleanupIdx, envVars, objs, res, m_swapChainExtent,
                    m_swapChainImageFormat, swapGen, staleGens, inFlight,
                    syncVars, frame, created, destroyed, recreationTeardown,
                    envChanged, oneShot, call, sizes,
                    lifeVars >>

\* The resize check of RenderSystem::update.  Reading ShouldResize() may or
\* may not clear the flag.
resizeCheck ==
    /\ pc = "resizeCheck"
    /\ \E keep \in BOOLEAN :
          input' = [input EXCEPT !.shouldResize = @ /\ keep]
    /\ iter' = [iter EXCEPT !.resizeChecked = TRUE, !.resizeInput = input]
    /\ IF ResizeWanted(input)
       THEN pc' = "recreateSwapChain" /\ ctx' = "resize"
       ELSE pc' = "acquire" /\ ctx' = ctx
    /\ UNCHANGED << cleanupIdx, shouldClose, caps, formats, objs, res,
                    m_swapChainExtent, m_swapChainImageFormat, swapGen,
                    staleGens, uboExtent, inFlight, syncVars, frame, created,
                    destroyed, recreationTeardown, envChanged, oneShot, call, sizes,
                    lifeVars >>

\* vkAcquireNextImageKHR on m_swapChain, to signal m_imageAvailableSemaphore,
\* and the two ifs on its result.
acquire ==
    /\ pc = "acquire"
    /\ \E result \in AcquireResults :
          /\ \E imageIndex \in 0..(sizes["swapChain"] - 1) :
                iter' = [iter EXCEPT !.acquire = result,
                                     !.acquires = @ + 1,
                                     !.acquiredGen = objs["swapChain"].gen,
                                     !.acquiredExtent = objs["swapChain"].extent,
                                     !.imageIndex = IF AcquireOutcome(result) = "continue"
                                                    THEN imageIndex ELSE -1]
          /\ staleGens' = IF result = "VK_ERROR_OUT_OF_DATE_KHR"
                          THEN staleGens \cup {objs["swapChain"].gen}
                          ELSE staleGens
          /\ IF AcquireDelivers(result)
             THEN /\ inFlight' = inFlight \cup {"acquire"}
                  /\ resignalled' = IF Outstanding("imageAvailable")
                                    THEN resignalled \cup {"imageAvailable"}
                                    ELSE resignalled
             ELSE UNCHANGED << inFlight, resignalled >>
          /\ CASE AcquireOutcome(result) = "recreate" ->
                      pc' = "recreateSwapChain" /\ ctx' = "acquire"
               [] AcquireOutcome(result) = "abort" ->
                      pc' = "aborted" /\ ctx' = ctx
               [] OTHER ->
                      pc' = "submit" /\ ctx' = ctx
    /\ UNCHANGED << cleanupIdx, envVars, objs, res, m_swapChainExtent,
                    m_swapChainImageFormat, swapGen, uboExtent, sem, retired,
                    frame, created, destroyed, recreationTeardown,
                    envChanged, oneShot, call, sizes,
                    lifeVars >>

\* vkQueueSubmit of m_commandBuffers[imageIndex], to wait on
\* m_imageAvailableSemaphore and signal m_renderFinishedSemaphore, and the
\* if on its result.
submit ==
    /\ pc = "submit"
    /\ \E result \in SubmitResults :
          /\ iter' = [iter EXCEPT !.submit = result, !.submits = @ + 1]
          /\ pc' = IF SubmitOutcome(result) = "abort" THEN "aborted" ELSE "present"
          /\ IF result = "VK_SUCCESS"
             THEN /\ inFlight' = inFlight \cup {"draw"}
                  /\ resignalled' = IF Outstanding("renderFinished")
                                    THEN resignalled \cup {"renderFinished"}
                                    ELSE resignalled
             ELSE UNCHANGED << inFlight, resignalled >>
    /\ UNCHANGED << ctx, cleanupIdx, envVars, objs, res, m_swapChainExtent,
                    m_swapChainImageFormat, swapGen, staleGens, uboExtent,
                    sem, retired, frame, created, destroyed,
                    recreationTeardown, envChanged, oneShot, call, sizes,
                    lifeVars >>

\* vkQueuePresentKHR on m_swapChain, to wait on m_renderFinishedSemaphore,
\* and the if / else if on its result.
present ==
    /\ pc = "present"
    /\ \E result \in PresentResults :
          /\ iter' = [iter EXCEPT !.present = result, !.presents = @ + 1,
                                  !.imageIndex = -1]
          /\ staleGens' = IF result = "VK_ERROR_OUT_OF_DATE_KHR"
                          THEN staleGens \cup {objs["swapChain"].gen}
                          ELSE staleGens
          /\ inFlight' = inFlight \cup {"present"}
          /\ CASE PresentOutcome(result) = "recreate" ->
                      pc' = "recreateSwapChain" /\ ctx' = "present"
               [] PresentOutcome(result) = "abort" ->
                      pc' = "aborted" /\ ctx' = ctx
               [] OTHER ->
                      pc' = "queueWaitIdle" /\ ctx' = ctx
    /\ UNCHANGED << cleanupIdx, envVars, objs, res, m_swapChainExtent,
                    m_swapChainImageFormat, swapGen, uboExtent, syncVars,
                    frame, created, destroyed, recreationTeardown,
                    envChanged, oneShot, call, sizes,
                    lifeVars >>

\* vkQueueWaitIdle(m_presentQueue), the last statement of update: returns
\* once the present queue has retired its work.
queueWaitIdle ==
    /\ pc = "queueWaitIdle"
    /\ PresentQueueIdle
    /\ pc' = "loop"
    /\ UNCHANGED << ctx, cleanupIdx, envVars, objs, res, m_swapChainExtent,
                    m_swapChainImageFormat, swapGen, staleGens, uboExtent,
                    inFlight, syncVars, frame, iter, created, destroyed,
                    recreationTeardown, envChanged, oneShot, call, sizes,
                    lifeVars >>

\* The GPU (for the acquire: the presentation engine) completes an
\* operation whose wait semaphore, if it has one, is signalled: the wait
\* unsignals that semaphore and the completion signals the operation's
\* signal semaphore.
GpuComplete ==
    /\ pc # "aborted"
    /\ \E op \in inFlight :
          LET waits == WaitSemaphore(op)
              signals == SignalSemaphore(op)
          IN  /\ IF waits = "none" THEN TRUE ELSE sem[waits]
              /\ sem' = [s \in Semaphores |->
                            IF s = signals THEN TRUE
                            ELSE IF s = waits THEN FALSE
                            ELSE sem[s]]
              /\ inFlight' = inFlight \ {op}
              /\ retired' = Append(retired, op)
    /\ UNCHANGED << pc, ctx, cleanupIdx, envVars, objs, res,
                    m_swapChainExtent, m_swapChainImageFormat, swapGen,
                    staleGens, uboExtent, resignalled, frame, iter, created,
                    destroyed, recreationTeardown, envChanged, oneShot, call, sizes,
                    lifeVars >>

(***************************************************************************)
(* Leaving the loop.                                                       *)
(***************************************************************************)
\* m_renderSystem.waitDeviceIdle() after the loop.
waitDeviceIdle ==
    /\ pc = "waitDeviceIdle"
    /\ DeviceIdle
    /\ pc' = "shutdown"
    /\ UNCHANGED << ctx, cleanupIdx, envVars, objs, res, m_swapChainExtent,
                    m_swapChainImageFormat, swapGen, staleGens, uboExtent,
                    inFlight, syncVars, frame, iter, created, destroyed,
                    recreationTeardown, envChanged, oneShot, call, sizes,
                    lifeVars >>

\* RenderSystem::shutdown, first statement: cleanupSwapChain is entered.
shutdown ==
    /\ pc = "shutdown"
    /\ pc' = "cleanupSwapChain"
    /\ ctx' = "shutdown"
    /\ cleanupIdx' = 1
    /\ destroyed' = << >>
    /\ UNCHANGED << envVars, objs, res, m_swapChainExtent,
                    m_swapChainImageFormat, swapGen, staleGens, uboExtent,
                    inFlight, syncVars, frame, iter, created,
                    recreationTeardown, envChanged, oneShot, call, sizes,
                    lifeVars >>

\* RenderSystem::shutdown after cleanupSwapChain and WindowSystem::shutdown,
\* one destroy call: the next object of ShutdownSequence.  After the last
\* one main returns.
shutdownRest ==
    /\ pc = "shutdownRest"
    /\ LET st == ApplyEffect([alive |-> alive, misuse |-> misuse],
                             Destroy(ShutdownSequence[cleanupIdx]))
       IN  alive' = st.alive /\ misuse' = st.misuse
    /\ IF cleanupIdx < Len(ShutdownSequence)
       THEN /\ cleanupIdx' = cleanupIdx + 1
            /\ UNCHANGED << pc, ctx, res >>
       ELSE /\ cleanupIdx' = 1
            /\ res' = {}
            /\ pc' = "exit"
            /\ ctx' = "none"
    /\ UNCHANGED << envVars, objs, m_swapChainExtent,
                    m_swapChainImageFormat, swapGen, staleGens, uboExtent,
                    inFlight, syncVars, frame, iter, created, destroyed,
                    recreationTeardown, envChanged, oneShot, call, sizes >>

Next ==
    \/ SolEngine_init
    \/ initStep
    \/ createSwapChain
    \/ createImageViews
    \/ createRenderPass
    \/ createGraphicsPipeline
    \/ createDepthAttachment
    \/ endAndSubmitCommandBuffer
    \/ freeCommandBuffer
    \/ createFramebuffers
    \/ createCommandBuffers
    \/ recreateSwapChain
    \/ cleanupSwapChain
    \/ SolEngine_update
    \/ glfwPollEvents
    \/ updateUniformBuffer
    \/ resizeCheck
    \/ acquire
    \/ submit
    \/ present
    \/ queueWaitIdle
    \/ GpuComplete
    \/ waitDeviceIdle
    \/ shutdown
    \/ shutdownRest

Spec == Init /\ [][Next]_vars

(***************************************************************************)
(* The helper functions of createSwapChain, each applied on its own to     *)
(* every input of a bounded set.                                           *)
(***************************************************************************)
\* The longest list of formats or present modes a surface reports.
MaxListLen == 3

\* The lists of at least `from` and at most MaxListLen elements of S.
Lists(S, from) == UNION { [1..n -> S] : n \in from..MaxListLen }

\* The surface formats a list can hold.
SurfaceFormats ==
    { SurfaceFormat(f, c) :
        f \in {"UNDEFINED", "B8G8R8A8_UNORM", "R8G8B8A8_UNORM"},
        c \in {"SRGB_NONLINEAR", "EXTENDED_SRGB_LINEAR"} }

\* The present modes a list can hold.
PresentModes == {"IMMEDIATE", "MAILBOX", "FIFO", "FIFO_RELAXED"}

\* The image counts of a capability report: unsigned, maxImageCount 0 (no
\* limit) or not below minImageCount.
ImageCountCaps ==
    { c \in [minImageCount : 0..UINT32_MAX, maxImageCount : 0..UINT32_MAX] :
        c.maxImageCount = 0 \/ c.minImageCount <= c.maxImageCount }

\* The extents of a capability report: the current extent is the sentinel
\* or a size, and minImageExtent <= maxImageExtent in both components.
ExtentCaps ==
    { [currentExtent |-> cur, minImageExtent |-> lo, maxImageExtent |-> hi] :
        cur \in {Extent(UINT32_MAX, UINT32_MAX), Extent(2, 3)},
        lo \in {Extent(1, 1), Extent(1, 2), Extent(2, 1)},
        hi \in {Extent(2, 2), Extent(2, 4), Extent(3, 2)} }

\* The desired sizes, std::size_t values: some need more than 32 bits.
DesiredSizes == {0, 1, 3, 5, UINT32_MAX + 2}

\* The queue families a device reports.  A family has at least one queue.
QueueFamilies ==
    [queueCount : {1}, graphics : BOOLEAN, presentSupport : BOOLEAN]

\* Queue family reports for findQueueFamilies on its own, a family without
\* queues included.
ScannedQueueFamilies ==
    [queueCount : {0, 1}, graphics : BOOLEAN, presentSupport : BOOLEAN]

\* The physical devices: every combination of reports.
PhysicalDevices ==
    [queueFamilies : Lists(QueueFamilies, 0),
     extensions : SUBSET {"VK_KHR_swapchain", "VK_KHR_maintenance1"},
     formats : {<< >>, << PreferredFormat >>},
     presentModes : {<< >>, << "FIFO" >>},
     samplerAnisotropy : BOOLEAN]

\* A device with the given queue families and feature, the swapchain
\* extension, a format and a present mode.
Gpu(families, anisotropy) ==
    [queueFamilies |-> families, extensions |-> {"VK_KHR_swapchain"},
     formats |-> << PreferredFormat >>, presentModes |-> << "FIFO" >>,
     samplerAnisotropy |-> anisotropy]

\* The devices an enumeration is made of: two that qualify, two that do not.
EnumeratedDevices ==
    { Gpu(<< [queueCount |-> 1, graphics |-> TRUE, presentSupport |-> TRUE] >>, TRUE),
      Gpu(<< [queueCount |-> 1, graphics |-> TRUE, presentSupport |-> FALSE],
             [queueCount |-> 1, graphics |-> FALSE, presentSupport |-> TRUE] >>, TRUE),
      Gpu(<< [queueCount |-> 1, graphics |-> TRUE, presentSupport |-> TRUE] >>, FALSE),
      Gpu(<< [queueCount |-> 1, graphics |-> TRUE, presentSupport |-> FALSE] >>, TRUE) }

\* Image layouts and image formats.
ImageLayouts ==
    {"UNDEFINED", "GENERAL", "COLOR_ATTACHMENT_OPTIMAL",
     "DEPTH_STENCIL_ATTACHMENT_OPTIMAL", "SHADER_READ_ONLY_OPTIMAL",
     "TRANSFER_DST_OPTIMAL"}

ImageFormats ==
    {"R8G8B8A8_UNORM", "D32_SFLOAT", "D32_SFLOAT_S8_UINT", "D24_UNORM_S8_UINT"}

\* What a device may report as the format properties of the depth formats.
FormatFeatures == SUBSET {"DEPTH_STENCIL_ATTACHMENT", "SAMPLED_IMAGE"}

FormatProperties ==
    [{ DepthFormats[i] : i \in 1..Len(DepthFormats) } ->
        [linearTilingFeatures : FormatFeatures,
         optimalTilingFeatures : FormatFeatures]]

\* A parsed model: three positions of which the first and the last are the
\* same point, two texture coordinates, and shapes of some indices.
ParsedAttrib ==
    [vertices |-> << 0, 0, 0,  1, 0, 0,  0, 0, 0 >>,
     texcoords |-> << 0, 0,  0, 1 >>]

MeshIndices == [vertex_index : 0..2, texcoord_index : 0..1]

ParsedShapes ==
    UNION { { << SubSeq(l, 1, k), SubSeq(l, k + 1, Len(l)) >> : k \in 0..Len(l) }
            : l \in Lists(MeshIndices, 0) }

\* A call that has not been made yet.
Pending(f, a) == [fn |-> f, arg |-> a, done |-> FALSE, ret |-> "none"]

ChooserCalls ==
    { Pending("chooseSwapSurfaceFormat", l) : l \in Lists(SurfaceFormats, 1) }
    \cup { Pending("chooseSwapPresentMode", l) : l \in Lists(PresentModes, 0) }
    \cup { Pending("chooseSwapExtent",
                   [capabilities |-> c, width |-> w, height |-> h]) :
             c \in ExtentCaps, w \in DesiredSizes, h \in DesiredSizes }
    \cup { Pending("imageCount", c) : c \in ImageCountCaps }
    \cup { Pending("isDeviceSuitable", d) : d \in PhysicalDevices }
    \cup { Pending("findQueueFamilies", [queueFamilies |-> l]) :
             l \in Lists(ScannedQueueFamilies, 0) }
    \cup { Pending("logAt", a) : a \in [site : LogSites, taken : BOOLEAN] }
    \cup { Pending("createAt", a) :
             a \in [creation : CreationCalls, result : CreationResults] }
    \cup { Pending("transitionImageLayout", a) :
             a \in [format : ImageFormats, oldLayout : ImageLayouts,
                    newLayout : ImageLayouts] }
    \cup { Pending("findDepthFormat", p) : p \in FormatProperties }
    \cup { Pending("loadModel", [attrib |-> ParsedAttrib, shapes |-> sh]) :
             sh \in ParsedShapes }
    \cup { Pending("pickPhysicalDevice", l) : l \in Lists(EnumeratedDevices, 0) }
    \cup { Pending("createLogicalDevice", d) :
             d \in { e \in PhysicalDevices : isDeviceSuitable(e) } }

\* The engine has not started and its environment is of no concern.
ChooserInit ==
    /\ EngineInit
    /\ input.width = 1 /\ input.height = 1
    /\ caps.currentExtent.width = UINT32_MAX
    /\ Len(formats) = 1
    /\ call \in ChooserCalls

apply_chooseSwapSurfaceFormat ==
    /\ call.fn = "chooseSwapSurfaceFormat" /\ ~call.done
    /\ call' = [call EXCEPT !.done = TRUE,
                            !.ret = chooseSwapSurfaceFormat(call.arg)]
    /\ UNCHANGED engineVars

apply_chooseSwapPresentMode ==
    /\ call.fn = "chooseSwapPresentMode" /\ ~call.done
    /\ call' = [call EXCEPT !.done = TRUE,
                            !.ret = chooseSwapPresentMode(call.arg)]
    /\ UNCHANGED engineVars

apply_chooseSwapExtent ==
    /\ call.fn = "chooseSwapExtent" /\ ~call.done
    /\ call' = [call EXCEPT !.done = TRUE,
                            !.ret = chooseSwapExtent(call.arg.capabilities,
                                                     call.arg.width,
                                                     call.arg.height)]
    /\ UNCHANGED engineVars

apply_imageCount ==
    /\ call.fn = "imageCount" /\ ~call.done
    /\ call' = [call EXCEPT !.done = TRUE, !.ret = imageCount(call.arg)]
    /\ UNCHANGED engineVars

apply_isDeviceSuitable ==
    /\ call.fn = "isDeviceSuitable" /\ ~call.done
    /\ call' = [call EXCEPT !.done = TRUE, !.ret = isDeviceSuitable(call.arg)]
    /\ UNCHANGED engineVars

apply_pickPhysicalDevice ==
    /\ call.fn = "pickPhysicalDevice" /\ ~call.done
    /\ call' = [call EXCEPT !.done = TRUE, !.ret = pickPhysicalDevice(call.arg)]
    /\ UNCHANGED engineVars

\* createLogicalDevice on the device pickPhysicalDevice chose: the queue
\* family indices and the queue create infos of the VkDeviceCreateInfo.
apply_createLogicalDevice ==
    /\ call.fn = "createLogicalDevice" /\ ~call.done
    /\ LET indices == findQueueFamilies(call.arg)
       IN  call' = [call EXCEPT !.done = TRUE,
                                !.ret = [indices |-> indices,
                                         queueCreateInfos |->
                                             queueCreateInfos(indices)]]
    /\ UNCHANGED engineVars

apply_transitionImageLayout ==
    /\ call.fn = "transitionImageLayout" /\ ~call.done
    /\ call' = [call EXCEPT
                   !.done = TRUE,
                   !.ret = transitionImageLayout(call.arg.format,
                                                 call.arg.oldLayout,
                                                 call.arg.newLayout)]
    /\ UNCHANGED engineVars

apply_findDepthFormat ==
    /\ call.fn = "findDepthFormat" /\ ~call.done
    /\ call' = [call EXCEPT !.done = TRUE, !.ret = findDepthFormat(call.arg)]
    /\ UNCHANGED engineVars

apply_loadModel ==
    /\ call.fn = "loadModel" /\ ~call.done
    /\ call' = [call EXCEPT
                   !.done = TRUE,
                   !.ret = loadModel(call.arg.attrib, call.arg.shapes)]
    /\ UNCHANGED engineVars

apply_logAt ==
    /\ call.fn = "logAt" /\ ~call.done
    /\ call' = [call EXCEPT !.done = TRUE,
                            !.ret = logAt(call.arg.site, call.arg.taken)]
    /\ UNCHANGED engineVars

apply_createAt ==
    /\ call.fn = "createAt" /\ ~call.done
    /\ call' = [call EXCEPT
                   !.done = TRUE,
                   !.ret = createAt(call.arg.creation, call.arg.result)]
    /\ UNCHANGED engineVars

apply_findQueueFamilies ==
    /\ call.fn = "findQueueFamilies" /\ ~call.done
    /\ call' = [call EXCEPT !.done = TRUE, !.ret = findQueueFamilies(call.arg)]
    /\ UNCHANGED engineVars

ChooserNext ==
    \/ apply_chooseSwapSurfaceFormat
    \/ apply_chooseSwapPresentMode
    \/ apply_chooseSwapExtent
    \/ apply_imageCount
    \/ apply_isDeviceSuitable
    \/ apply_pickPhysicalDevice
    \/ apply_createLogicalDevice
    \/ apply_transitionImageLayout
    \/ apply_findDepthFormat
    \/ apply_loadModel
    \/ apply_logAt
    \/ apply_createAt
    \/ apply_findQueueFamilies

ChooserSpec == ChooserInit /\ [][ChooserNext]_vars

(***************************************************************************)
(* Properties of the frame loop.                                           *)
(***************************************************************************)
Range(seq) == { seq[i] : i \in 1..Len(seq) }

\* The thread is inside the recreateSwapChain call made from call site c.
InRecreation(c) ==
    /\ ctx = c
    /\ pc \in {"recreateSwapChain", "cleanupSwapChain"} \cup Range(RecreateSequence)

\* The frame loop has been left.
AfterLoop ==
    \/ pc \in {"waitDeviceIdle", "shutdown", "shutdownRest", "exit"}
    \/ pc = "cleanupSwapChain" /\ ctx = "shutdown"

\* The live swapchain is another instance than the one this iteration
\* acquired from, and a recreation has finished in this iteration.
Recreated ==
    /\ iter.recreations >= 1
    /\ objs["swapChain"].live
    /\ objs["swapChain"].gen > iter.acquiredGen

\* C1: when vkAcquireNextImageKHR returns VK_ERROR_OUT_OF_DATE_KHR, the
\* iteration makes no queue submit and no present; the only thing it still
\* does is recreateSwapChain, and update has returned (the thread is back at
\* the loop head, with a new swapchain) right after it.
C1_AcquireOutOfDateEndsIteration ==
    iter.acquire = "VK_ERROR_OUT_OF_DATE_KHR" =>
        /\ iter.submits = 0
        /\ iter.presents = 0
        /\ iter.acquires = 1
        /\ \/ InRecreation("acquire")
           \/ pc = "loop" /\ Recreated
           \/ AfterLoop

\* An iteration whose acquire was out of date has returned to the loop head.
C1_Witness ==
    /\ pc = "loop"
    /\ iter.acquire = "VK_ERROR_OUT_OF_DATE_KHR"
    /\ iter.recreations >= 1

\* C2: no vkAcquireNextImageKHR is issued on a swapchain that has reported
\* out-of-date: whenever the thread is about to acquire, m_swapChain is a
\* live swapchain that never returned VK_ERROR_OUT_OF_DATE_KHR; and an
\* iteration in which acquire or present returned it ends with a finished
\* recreation, all swapchain-dependent objects live again.
C2_RecreatedBeforeNextAcquire ==
    /\ pc = "acquire" =>
          /\ objs["swapChain"].live
          /\ objs["swapChain"].gen \notin staleGens
    /\ ( /\ pc = "loop"
         /\ "VK_ERROR_OUT_OF_DATE_KHR" \in {iter.acquire, iter.present} ) =>
          /\ Recreated
          /\ iter.acquiredGen \in staleGens
          /\ \A o \in SwapChainObjects : objs[o].live

\* The thread is about to acquire from the swapchain that replaced one that
\* reported out-of-date in the previous iteration.
C2_Witness ==
    /\ pc = "acquire"
    /\ frame >= 2
    /\ iter.recreations = 0
    /\ (objs["swapChain"].gen - 1) \in staleGens

\* C3, as stated: an iteration whose present returned out-of-date has made
\* neither a queue submit nor a present.
C3_NoSubmitNoPresentAtAll ==
    iter.present = "VK_ERROR_OUT_OF_DATE_KHR" =>
        /\ iter.submits = 0
        /\ iter.presents = 0

\* C3, amended: an iteration whose present returned out-of-date has made
\* exactly one successful queue submit and one present (the call that
\* returned the status) and makes no further acquire, submit or present:
\* the swapchain is recreated and the iteration ends.
C3_PresentOutOfDateNoFurtherSubmit ==
    iter.present = "VK_ERROR_OUT_OF_DATE_KHR" =>
        /\ iter.acquires = 1
        /\ iter.submits = 1
        /\ iter.submit = "VK_SUCCESS"
        /\ iter.presents = 1
        /\ pc \notin {"acquire", "submit", "present"}

\* An iteration whose present was out of date has finished.
C3_Witness ==
    /\ pc = "loop"
    /\ iter.present = "VK_ERROR_OUT_OF_DATE_KHR"
    /\ iter.submits = 1

\* C4: when vkQueuePresentKHR returns out-of-date or suboptimal, the next
\* thing update does is recreateSwapChain: the thread is inside that call,
\* or has finished it and is at (or past) the vkQueueWaitIdle that ends the
\* iteration with a new swapchain live.
C4_PresentStaleRecreatesSameIteration ==
    iter.present \in {"VK_ERROR_OUT_OF_DATE_KHR", "VK_SUBOPTIMAL_KHR"} =>
        \/ InRecreation("present")
        \/ pc \in {"queueWaitIdle", "loop"} /\ Recreated
        \/ AfterLoop

\* The thread waits for the present queue after the recreation that a
\* suboptimal present caused.
C4_Witness ==
    /\ pc = "queueWaitIdle"
    /\ iter.present = "VK_SUBOPTIMAL_KHR"
    /\ Recreated

\* C5, as stated: a suboptimal present triggers no recreation, the swapchain
\* in use after it is the instance that was presented.
C5_SuboptimalPresentKeepsSwapchain ==
    iter.present = "VK_SUBOPTIMAL_KHR" =>
        /\ ~InRecreation("present")
        /\ pc \in {"queueWaitIdle", "loop"} =>
              objs["swapChain"].gen = iter.acquiredGen

\* C5, amended: it is a suboptimal acquire that triggers no recreation, the
\* swapchain submitted to and presented after it is the instance acquired
\* from; a suboptimal present is followed by a recreation, the swapchain in
\* use after it is another instance.
C5_SuboptimalAcquireKeepsSwapchain ==
    /\ iter.acquire = "VK_SUBOPTIMAL_KHR" =>
          /\ ~InRecreation("acquire")
          /\ pc \in {"submit", "present"} =>
                /\ objs["swapChain"].live
                /\ objs["swapChain"].gen = iter.acquiredGen
    /\ ( iter.present = "VK_SUBOPTIMAL_KHR" /\ pc \in {"queueWaitIdle", "loop"} ) =>
          objs["swapChain"].gen # iter.acquiredGen

\* The image of a suboptimal acquire is about to be presented.
C5_Witness ==
    /\ pc = "present"
    /\ iter.acquire = "VK_SUBOPTIMAL_KHR"
    /\ iter.submits = 1

\* An acquire, submit or present result that update treats as fatal.
FatalResultSeen ==
    \/ iter.acquire \notin
          {"none", "VK_SUCCESS", "VK_SUBOPTIMAL_KHR", "VK_ERROR_OUT_OF_DATE_KHR"}
    \/ iter.submit \notin {"none", "VK_SUCCESS"}
    \/ iter.present \notin
          {"none", "VK_SUCCESS", "VK_SUBOPTIMAL_KHR", "VK_ERROR_OUT_OF_DATE_KHR"}

\* C6: an acquire result other than success, suboptimal or out-of-date, a
\* failed submit, and a present result other than success, suboptimal or
\* out-of-date abort the process, and an aborted process does nothing more:
\* no Vulkan call, no recreation, no destruction.
C6_FatalResultsAbort ==
    /\ [](FatalResultSeen => pc = "aborted")
    /\ [][pc = "aborted" =>
            UNCHANGED << pc, objs, res, iter, swapGen, inFlight, destroyed >>]_vars

\* The process has aborted on a failed present, after a successful submit.
C6_Witness ==
    /\ pc = "aborted"
    /\ iter.submit = "VK_SUCCESS"
    /\ iter.present = "VK_ERROR_DEVICE_LOST"

\* C7: at the acquire of an iteration whose resize check found the flag set
\* with width > 0 and height > 0, exactly one recreation has finished and
\* the live swapchain is the successor of the one the iteration started
\* with; if it found the flag set with width or height 0, the check starts
\* no recreation and the swapchain is the one the iteration started with.
C7_ResizeRecreatesBeforeAcquire ==
    LET in == iter.resizeInput
        positive == in.width > 0 /\ in.height > 0
    IN  /\ ( pc = "acquire" /\ in.shouldResize /\ positive ) =>
              /\ iter.resizeChecked
              /\ iter.recreations = 1
              /\ objs["swapChain"].live
              /\ objs["swapChain"].gen = iter.startGen + 1
        /\ ( iter.resizeChecked /\ in.shouldResize /\ ~positive ) =>
              /\ ~InRecreation("resize")
              /\ pc = "acquire" =>
                    /\ iter.recreations = 0
                    /\ objs["swapChain"].gen = iter.startGen

\* The thread is about to acquire after the recreation a resize caused.
C7_Witness ==
    /\ pc = "acquire"
    /\ iter.resizeInput.shouldResize
    /\ iter.resizeInput.width > 0
    /\ iter.resizeInput.height > 0
    /\ iter.recreations = 1

\* C8: in an iteration the recreation that the resize check starts comes
\* before the uniform buffer is written (the buffer has not been written yet
\* while that recreation runs), so the projection a frame is drawn with is
\* computed from the extent of the swapchain its image was acquired from.
C8_ResizeBeforeUniformUpdate ==
    /\ InRecreation("resize") => ~iter.uboWritten
    /\ pc \in {"submit", "present"} => uboExtent = iter.acquiredExtent

(***************************************************************************)
(* Properties of recreateSwapChain.                                        *)
(***************************************************************************)
Reverse(seq) == [i \in 1..Len(seq) |-> seq[Len(seq) + 1 - i]]

IsPrefix(s, t) == Len(s) <= Len(t) /\ s = SubSeq(t, 1, Len(s))

\* The objects C9 names as destroyed in reverse creation order.
IsTornDown(o) ==
    o \in {"framebuffers", "pipeline", "renderPass", "imageViews", "swapChain"}

\* The objects C9 names as rebuilt, in the order it names them (the depth
\* attachment is the depth image; its view follows it).
RebuildOrder ==
    << "swapChain", "imageViews", "renderPass", "pipeline", "depthImage",
       "framebuffers", "commandBuffers" >>

IsRebuilt(o) == o \in Range(RebuildOrder)

\* The thread is inside recreateSwapChain, past vkDeviceWaitIdle.
RecreationRunning ==
    /\ ctx \in {"resize", "acquire", "present"}
    /\ pc \in {"cleanupSwapChain"} \cup Range(RecreateSequence)

\* C9: recreateSwapChain destroys nothing before the device is idle (from
\* the first destroy call to the last create call nothing is in flight but
\* the layout transition createDepthAttachment itself submits); it
\* destroys framebuffers, pipeline, render pass, image views and swapchain
\* in the reverse of the order in which the generation being torn down
\* created them; when it creates the new swapchain every swapchain-dependent
\* object is destroyed; and it then rebuilds swapchain, image views, render
\* pass, pipeline, depth attachment, framebuffers and command buffers in
\* that order and destroys nothing more.
C9_RecreateOrder ==
    /\ RecreationRunning =>
          inFlight \subseteq
              (IF pc = "createDepthAttachment" THEN {"oneShot"} ELSE {})
    /\ ( RecreationRunning /\ pc = "cleanupSwapChain" ) =>
          IsPrefix(SelectSeq(destroyed, IsTornDown),
                   Reverse(SelectSeq(created, IsTornDown)))
    /\ ( RecreationRunning /\ pc = "createSwapChain" ) =>
          /\ SelectSeq(destroyed, IsTornDown) = Reverse(SelectSeq(created, IsTornDown))
          /\ Len(SelectSeq(destroyed, IsTornDown)) = 5
          /\ \A o \in SwapChainObjects : ~objs[o].live
    /\ ( RecreationRunning /\ pc # "cleanupSwapChain" /\ pc # "createSwapChain" ) =>
          /\ IsPrefix(SelectSeq(created, IsRebuilt), RebuildOrder)
          /\ \A i \in 1..Len(created) : objs[created[i]].live
          /\ Len(destroyed) = Cardinality(SwapChainObjects)
    /\ ( swapGen >= 2 /\ pc \in {"acquire", "queueWaitIdle", "loop"} ) =>
          SelectSeq(created, IsRebuilt) = RebuildOrder

\* A recreation has torn everything down and is about to create the new
\* swapchain, the second one it replaces.
C9_Witness ==
    /\ RecreationRunning
    /\ pc = "createSwapChain"
    /\ swapGen = 2
    /\ Len(destroyed) = 9

\* The objects C10 names, and the inputs each is built from.
UsesExtent ==
    {"pipeline", "depthImage", "depthImageView", "framebuffers", "commandBuffers"}

UsesFormat ==
    {"imageViews", "renderPass", "pipeline", "framebuffers", "commandBuffers"}

\* C10: where the frame loop acquires, submits or presents, every
\* swapchain-dependent object is live and was built from the live swapchain:
\* same generation, and the extent and format it was built from are those
\* of that swapchain.
C10_ObjectsOfOneGeneration ==
    pc \in {"acquire", "submit", "present"} =>
        /\ objs["swapChain"].live
        /\ objs["swapChain"].gen = swapGen
        /\ m_swapChainExtent = objs["swapChain"].extent
        /\ m_swapChainImageFormat = objs["swapChain"].format
        /\ \A o \in SwapChainObjects :
              /\ objs[o].live
              /\ objs[o].gen = objs["swapChain"].gen
        /\ \A o \in UsesExtent : objs[o].extent = objs["swapChain"].extent
        /\ \A o \in UsesFormat : objs[o].format = objs["swapChain"].format

\* A frame is submitted on a swapchain that is at least the third one, with
\* an extent other than the one of the swapchain before it.
C10_Witness ==
    /\ pc = "submit"
    /\ objs["swapChain"].gen >= 3
    /\ objs["swapChain"].extent # uboExtent

(***************************************************************************)
(* Properties of the CPU / GPU synchronisation.                            *)
(***************************************************************************)
\* C11: only one frame is ever in flight: where an iteration of the frame
\* loop starts (the loop test, glfwPollEvents) and where the CPU is about to
\* write the uniform buffer, no draw and no present submitted earlier is
\* still on the GPU, whichever way the previous iteration ended.
C11_OneFrameInFlight ==
    pc \in {"loop", "glfwPollEvents", "updateUniformBuffer"} =>
        inFlight \cap QueueOperations = {}

\* An iteration that submitted and presented is over and the loop goes on.
C11_Witness ==
    /\ pc = "loop"
    /\ ~shouldClose
    /\ iter.submits = 1
    /\ iter.presents = 1
    /\ inFlight = {}

\* The order the semaphores impose on the operations of one iteration.
GpuOrder == << "acquire", "draw", "present" >>

\* An operation of the frame, not the one-shot work of a recreation.
IsFrameOperation(op) == op \in Range(GpuOrder)

\* C12: the GPU executes the operations of an iteration in the order
\* acquire, submit, present (what it has retired so far is a prefix of that
\* order, and all three once an iteration that presented has returned), and
\* no semaphore is ever given a signal while an earlier signal on it is
\* still outstanding.
C12_SemaphoreOrder ==
    /\ IsPrefix(SelectSeq(retired, IsFrameOperation), GpuOrder)
    /\ ( pc = "loop" /\ iter.presents = 1 ) =>
          SelectSeq(retired, IsFrameOperation) = GpuOrder
    /\ resignalled = {}

\* The second frame has gone through the GPU, on a recreated swapchain.
C12_Witness ==
    /\ frame = 2
    /\ swapGen >= 2
    /\ iter.presents = 1
    /\ retired = GpuOrder
    /\ sem = [s \in Semaphores |-> FALSE]

(***************************************************************************)
(* Properties of leaving the loop and of shutdown.                         *)
(***************************************************************************)
\* RenderSystem::shutdown has been entered.
ShutdownRunning ==
    \/ pc \in {"shutdown", "shutdownRest", "exit"}
    \/ pc = "cleanupSwapChain" /\ ctx = "shutdown"

\* C13: the loop is left exactly when its test finds the close request (an
\* iteration starts otherwise), what follows the loop is the device-wide
\* idle wait, shutdown is entered only from that wait and with the device
\* idle, and nothing is destroyed after the loop until shutdown is entered.
C13_CloseThenIdleThenShutdown ==
    /\ [](AfterLoop => shouldClose)
    /\ [](ShutdownRunning => inFlight = {})
    /\ [][ ( pc = "loop" /\ pc' # "loop" ) =>
              pc' = IF shouldClose THEN "waitDeviceIdle" ELSE "glfwPollEvents" ]_vars
    /\ [][ ( pc' = "shutdown" /\ pc # "shutdown" ) =>
              ( pc = "waitDeviceIdle" /\ DeviceIdle ) ]_vars
    /\ [][ ( AfterLoop /\ ( objs' # objs \/ res' # res ) ) => ShutdownRunning ]_vars

\* Shutdown is about to destroy its first object, after a loop of two
\* iterations the last of which presented.
C13_Witness ==
    /\ pc = "cleanupSwapChain"
    /\ ctx = "shutdown"
    /\ destroyed = << >>
    /\ frame = 2
    /\ iter.presents = 1

\* C14: shutdown destroys the swapchain-dependent objects in the order the
\* recreations destroyed them, each object once and all of them gone when
\* the teardown is over; the teardown is entered once, from the first
\* statement of shutdown, which is never reached again; and once shutdown
\* has begun nothing is acquired, submitted or presented and no swapchain is
\* created.
C14_ShutdownTeardownOnce ==
    /\ [](ShutdownRunning =>
            /\ Cardinality(Range(destroyed)) = Len(destroyed)
            /\ recreationTeardown # << >> => IsPrefix(destroyed, recreationTeardown))
    /\ [](pc \in {"shutdownRest", "exit"} =>
            /\ Len(destroyed) = Cardinality(SwapChainObjects)
            /\ \A o \in SwapChainObjects : ~objs[o].live)
    /\ [][ ShutdownRunning =>
              /\ pc' # pc /\ pc' = "cleanupSwapChain" => pc = "shutdown"
              /\ pc # "shutdown" => pc' # "shutdown"
              /\ ShutdownRunning'
              /\ UNCHANGED << iter, swapGen, inFlight, created, retired >> ]_vars

\* The program has shut down after a run in which a recreation happened.
C14_Witness ==
    /\ pc = "exit"
    /\ recreationTeardown # << >>
    /\ destroyed = recreationTeardown
    /\ iter.presents = 1

(***************************************************************************)
(* Properties of the helper functions of createSwapChain.                  *)
(***************************************************************************)
\* Function f has been applied to call.arg and call.ret is what it returned.
Returned(f) == call.fn = f /\ call.done

\* The value of an unsigned 32-bit expression.
Wrap32(n) == n % (UINT32_MAX + 1)

\* C15: the requested image count is the unsigned sum minImageCount + 1 when
\* maxImageCount is 0, and the smaller of that sum and maxImageCount
\* otherwise; minImageCount 2 with maxImageCount 3 gives 3.
C15_ImageCountFormula ==
    Returned("imageCount") =>
        LET sum == Wrap32(call.arg.minImageCount + 1)
        IN  /\ call.arg.maxImageCount = 0 => call.ret = sum
            /\ call.arg.maxImageCount > 0 =>
                  call.ret = Min(sum, call.arg.maxImageCount)
            /\ ( call.arg.minImageCount = 2 /\ call.arg.maxImageCount = 3 ) =>
                  call.ret = 3

\* The count for minImageCount 2, maxImageCount 3 has been computed.
C15_Witness ==
    /\ Returned("imageCount")
    /\ call.arg.minImageCount = 2
    /\ call.arg.maxImageCount = 3
    /\ call.ret = 3

\* C16: for every report with maxImageCount 0 or minImageCount <=
\* maxImageCount, the requested count is at least minImageCount, and at most
\* maxImageCount when that is not 0, also where minImageCount + 1 wraps.
C16_ImageCountWithinBounds ==
    Returned("imageCount") =>
        /\ call.arg.minImageCount <= call.ret
        /\ call.arg.maxImageCount > 0 => call.ret <= call.arg.maxImageCount

\* C17 as stated: the requested count is at least minImageCount + 1 for every
\* capability report.
C17_AtLeastMinPlusOne ==
    Returned("imageCount") =>
        call.ret >= Wrap32(call.arg.minImageCount + 1)

\* C17: the requested count is at least the unsigned sum minImageCount + 1
\* exactly when maxImageCount is 0 or not below that sum; otherwise the
\* request is maxImageCount, which is less.
C17_AtLeastMinPlusOneUnlessCapped ==
    Returned("imageCount") =>
        LET sum == Wrap32(call.arg.minImageCount + 1)
            room == call.arg.maxImageCount = 0 \/ sum <= call.arg.maxImageCount
        IN  /\ call.ret >= sum <=> room
            /\ ~room => call.ret = call.arg.maxImageCount

\* The count for a surface with exactly two images has been computed.
C17_Witness ==
    /\ Returned("imageCount")
    /\ call.arg.minImageCount = 2
    /\ call.arg.maxImageCount = 2
    /\ call.ret = 2

\* C18: for every non-empty list, chooseSwapSurfaceFormat returns the
\* preferred pair if the list holds it, the preferred pair if the list is
\* one entry of undefined format, and the first entry otherwise.
C18_SurfaceFormatChoice ==
    Returned("chooseSwapSurfaceFormat") =>
        LET list == call.arg
            holdsPreferred == PreferredFormat \in Range(list)
            oneUndefined == Len(list) = 1 /\ list[1].format = "UNDEFINED"
        IN  /\ holdsPreferred => call.ret = PreferredFormat
            /\ oneUndefined => call.ret = PreferredFormat
            /\ ( ~holdsPreferred /\ ~oneUndefined ) => call.ret = list[1]

\* The preferred pair was found behind an entry of the preferred format in
\* another colour space.
C18_Witness ==
    /\ Returned("chooseSwapSurfaceFormat")
    /\ Len(call.arg) = 3
    /\ call.arg[1] = SurfaceFormat("B8G8R8A8_UNORM", "EXTENDED_SRGB_LINEAR")
    /\ call.arg[3] = PreferredFormat
    /\ call.ret = PreferredFormat

\* C19: for every list, in whatever order, chooseSwapPresentMode returns
\* mailbox if the list holds mailbox, else immediate if it holds immediate,
\* else FIFO.
C19_PresentModeChoice ==
    Returned("chooseSwapPresentMode") =>
        call.ret = IF "MAILBOX" \in Range(call.arg) THEN "MAILBOX"
                   ELSE IF "IMMEDIATE" \in Range(call.arg) THEN "IMMEDIATE"
                   ELSE "FIFO"

\* Mailbox was chosen although immediate and FIFO come before it.
C19_Witness ==
    /\ Returned("chooseSwapPresentMode")
    /\ call.arg = << "IMMEDIATE", "FIFO", "MAILBOX" >>
    /\ call.ret = "MAILBOX"

\* v clamped into [lo, hi].
Clamp(v, lo, hi) == Max(lo, Min(hi, v))

C22_FirstSuitableDevice ==
    Returned("pickPhysicalDevice") =>
        LET devices == call.arg
            suitable == { i \in 1..Len(devices) : isDeviceSuitable(devices[i]) }
        IN  /\ call.ret.aborted <=> suitable = {}
            /\ ~call.ret.aborted =>
                  /\ call.ret.m_physicalDevice \in suitable
                  /\ \A j \in suitable : call.ret.m_physicalDevice <= j

\* The second of three devices was selected: the first does not qualify, the
\* third does.
C22_Witness ==
    /\ Returned("pickPhysicalDevice")
    /\ Len(call.arg) = 3
    /\ ~isDeviceSuitable(call.arg[1])
    /\ isDeviceSuitable(call.arg[2])
    /\ isDeviceSuitable(call.arg[3])
    /\ call.ret = [aborted |-> FALSE, m_physicalDevice |-> 2]

\* C23: isDeviceSuitable is true exactly for a device with a graphics queue
\* family, a queue family that can present to the surface, every required
\* extension, at least one surface format, at least one present mode, and
\* sampler anisotropy.
C23_SuitabilityPredicate ==
    Returned("isDeviceSuitable") =>
        LET device == call.arg
            families == Range(device.queueFamilies)
        IN  call.ret <=>
              /\ \E q \in families : q.graphics
              /\ \E q \in families : q.presentSupport
              /\ "VK_KHR_swapchain" \in device.extensions
              /\ Len(device.formats) >= 1
              /\ Len(device.presentModes) >= 1
              /\ device.samplerAnisotropy

\* A device whose graphics family and present family differ qualified.
C23_Witness ==
    /\ Returned("isDeviceSuitable")
    /\ call.ret
    /\ Len(call.arg.queueFamilies) = 2
    /\ ~call.arg.queueFamilies[1].presentSupport
    /\ ~call.arg.queueFamilies[2].graphics

\* C24: createLogicalDevice requests one queue for each distinct family among
\* the graphics and the present family: one entry when they are the same
\* family, two when they differ, no family twice.
C24_OneQueuePerDistinctFamily ==
    Returned("createLogicalDevice") =>
        LET indices == call.ret.indices
            infos == call.ret.queueCreateInfos
            requested == { infos[i].queueFamilyIndex : i \in 1..Len(infos) }
        IN  /\ Len(infos) =
                  IF indices.graphicsFamily = indices.presentFamily THEN 1 ELSE 2
            /\ requested = {indices.graphicsFamily, indices.presentFamily}
            /\ Cardinality(requested) = Len(infos)
            /\ \A i \in 1..Len(infos) : infos[i].queueCount = 1

\* One queue was requested for a family that does graphics and present.
C24_Witness ==
    /\ Returned("createLogicalDevice")
    /\ call.ret.indices.graphicsFamily = call.ret.indices.presentFamily
    /\ Len(call.ret.queueCreateInfos) = 1

(***************************************************************************)
(* Properties of the image helpers and of Mesh::loadModel.                 *)
(***************************************************************************)
\* The layout pairs C27 names.
TransitionPairs ==
    { << "UNDEFINED", "TRANSFER_DST_OPTIMAL" >>,
      << "TRANSFER_DST_OPTIMAL", "SHADER_READ_ONLY_OPTIMAL" >>,
      << "UNDEFINED", "DEPTH_STENCIL_ATTACHMENT_OPTIMAL" >> }

C28_FirstSupportedDepthFormat ==
    Returned("findDepthFormat") =>
        LET order == << "D32_SFLOAT", "D32_SFLOAT_S8_UINT", "D24_UNORM_S8_UINT" >>
            supported ==
                { i \in 1..3 : "DEPTH_STENCIL_ATTACHMENT" \in
                                   call.arg[order[i]].optimalTilingFeatures }
        IN  /\ call.ret.aborted <=> supported = {}
            /\ ~call.ret.aborted =>
                  \E i \in supported :
                      /\ call.ret.format = order[i]
                      /\ \A j \in supported : i <= j

\* D32_SFLOAT has the feature with linear tiling only, and the last
\* candidate was returned.
C28_Witness ==
    /\ Returned("findDepthFormat")
    /\ "DEPTH_STENCIL_ATTACHMENT" \in call.arg["D32_SFLOAT"].linearTilingFeatures
    /\ "DEPTH_STENCIL_ATTACHMENT" \notin
           call.arg["D32_SFLOAT"].optimalTilingFeatures
    /\ call.ret = [aborted |-> FALSE, format |-> "D24_UNORM_S8_UINT"]

\* The indices of the shapes of a loadModel call, in the order of the loops,
\* and the position/color/texcoord triple of each.
References == call.arg.shapes[1] \o call.arg.shapes[2]

Triple(i) == MakeVertex(call.arg.attrib, References[i])

\* C29: loadModel gives two index references with equal
\* position/color/texcoord triples the same output index, and the output
\* vertex list has one entry per distinct triple of the input, however many
\* references repeat one.
C29_VerticesDeduplicated ==
    Returned("loadModel") =>
        LET n == Len(References)
        IN  /\ Len(call.ret.indices) = n
            /\ \A i, j \in 1..n :
                  Triple(i) = Triple(j) => call.ret.indices[i] = call.ret.indices[j]
            /\ Len(call.ret.vertices) = Cardinality({ Triple(i) : i \in 1..n })

\* Three references, two distinct triples: the third repeats the first
\* through another position index.
C29_Witness ==
    /\ Returned("loadModel")
    /\ Len(References) = 3
    /\ References[1].vertex_index # References[3].vertex_index
    /\ Triple(1) = Triple(3)
    /\ Triple(1) # Triple(2)
    /\ Len(call.ret.vertices) = 2
    /\ call.ret.indices = << 0, 1, 0 >>

(***************************************************************************)
(* Properties of the error handling.                                       *)
(***************************************************************************)
\* C25: a creation or allocation call of init or of recreateSwapChain that
\* fails is followed by a log and the abort of the process; the statement
\* after the test of its result is not reached.
C25_FailedCreationAborts ==
    ( Returned("createAt") /\ call.arg.result # "VK_SUCCESS" ) =>
        /\ Len(call.ret) = 2
        /\ call.ret[1] \in {"critical", "error"}
        /\ call.ret[2] = "abort"

OneShotSubmitted == oneShot.state # "submitted" /\ oneShot'.state = "submitted"

\* A one-shot command buffer is freed in this step.
OneShotFreed == oneShot.state = "submitted" /\ oneShot'.state # "submitted"

\* C30: a one-shot command buffer (of a buffer copy, a buffer-to-image copy
\* or a layout transition) that has been begun is submitted next; it is
\* freed only from the submitted state and only when the graphics queue
\* has retired everything, the one-shot work included; and at its submit,
\* and for as long as it is in flight, no per-frame draw is in flight.
C30_OneShotSubmitWaitFree ==
    /\ []( oneShot.state # "none" =>
             Head(oneShot.todo) \in
                 {"copyBuffer", "copyBufferToImage", "transitionImageLayout"} )
    /\ []( "oneShot" \in inFlight =>
             oneShot.state = "submitted" /\ "draw" \notin inFlight )
    /\ [][ oneShot.state = "recording" =>
             oneShot'.state \in {"recording", "submitted"} ]_vars
    /\ [][ OneShotSubmitted =>
             oneShot.state = "recording" /\ "draw" \notin inFlight ]_vars
    /\ [][ OneShotFreed => inFlight \cap {"draw", "oneShot"} = {} ]_vars

\* In a recreation that follows a present, the layout transition of the new
\* depth image has been submitted and retired and is about to be freed.
C30_Witness ==
    /\ pc = "createDepthAttachment"
    /\ ctx = "present"
    /\ iter.submit = "VK_SUCCESS"
    /\ oneShot = [todo |-> << "transitionImageLayout" >>, state |-> "submitted"]
    /\ inFlight \cap {"draw", "oneShot"} = {}

(***************************************************************************)
(* Further properties of findQueueFamilies and of Mesh::loadModel.         *)
(***************************************************************************)
\* Family i (counted from 0) of a findQueueFamilies call has queues and
\* supports graphics, or presentation.
GraphicsCapable(i) ==
    /\ i \in 0..(Len(call.arg.queueFamilies) - 1)
    /\ call.arg.queueFamilies[i + 1].queueCount > 0
    /\ call.arg.queueFamilies[i + 1].graphics

PresentCapable(i) ==
    /\ i \in 0..(Len(call.arg.queueFamilies) - 1)
    /\ call.arg.queueFamilies[i + 1].queueCount > 0
    /\ call.arg.queueFamilies[i + 1].presentSupport

\* Both indices are set once family k has been looked at.
BothSetAt(k) ==
    /\ \E i \in 0..k : GraphicsCapable(i)
    /\ \E i \in 0..k : PresentCapable(i)

\* C38: findQueueFamilies returns a complete result exactly when some
\* family with queues supports graphics and some family with queues
\* supports presentation; a non-negative graphicsFamily (presentFamily) is
\* the index of a graphics (present) capable family; and the scan stops at
\* the first family at which both are set: that family is one of the two
\* results and no later family is.
C38_QueueFamilyScan ==
    Returned("findQueueFamilies") =>
        LET n == Len(call.arg.queueFamilies)
            g == call.ret.graphicsFamily
            p == call.ret.presentFamily
        IN  /\ isComplete(call.ret) <=>
                  /\ \E i \in 0..(n - 1) : GraphicsCapable(i)
                  /\ \E i \in 0..(n - 1) : PresentCapable(i)
            /\ g >= 0 => GraphicsCapable(g)
            /\ p >= 0 => PresentCapable(p)
            /\ g < 0 => g = -1 /\ ~\E i \in 0..(n - 1) : GraphicsCapable(i)
            /\ p < 0 => p = -1 /\ ~\E i \in 0..(n - 1) : PresentCapable(i)
            /\ isComplete(call.ret) =>
                  /\ BothSetAt(Max(g, p))
                  /\ \A k \in 0..(Max(g, p) - 1) : ~BothSetAt(k)

\* The scan stopped at the second of three families, all of them capable of
\* graphics: the second is the first that can present.
C38_Witness ==
    /\ Returned("findQueueFamilies")
    /\ Len(call.arg.queueFamilies) = 3
    /\ GraphicsCapable(0) /\ GraphicsCapable(1) /\ GraphicsCapable(2)
    /\ ~PresentCapable(0) /\ PresentCapable(1) /\ PresentCapable(2)
    /\ call.ret = [graphicsFamily |-> 1, presentFamily |-> 1]

\* The reference at which a vertex of the output first occurs in the input.
FirstOccurrence(vertex) ==
    CHOOSE i \in 1..Len(References) :
        /\ Triple(i) = vertex
        /\ \A j \in 1..(i - 1) : Triple(j) # vertex

\* C40: loadModel preserves the model: one output index per index
\* reference, every output index below the number of output vertices, the
\* vertex at indices[k] equal to the vertex built from the k-th reference,
\* and the output vertices in the order of their first occurrence.
C40_ModelPreserved ==
    Returned("loadModel") =>
        LET n == Len(References)
            vertices == call.ret.vertices
            indices == call.ret.indices
        IN  /\ Len(indices) = n
            /\ \A k \in 1..n :
                  /\ indices[k] \in 0..(Len(vertices) - 1)
                  /\ vertices[indices[k] + 1] = Triple(k)
            /\ \A a \in 1..Len(vertices) :
                  \E i \in 1..n : Triple(i) = vertices[a]
            /\ \A a, b \in 1..Len(vertices) :
                  a < b => FirstOccurrence(vertices[a]) < FirstOccurrence(vertices[b])

\* Three references over two shapes: the second repeats the first, the
\* third is new.
C40_Witness ==
    /\ Returned("loadModel")
    /\ Len(call.arg.shapes[1]) = 1
    /\ Len(call.arg.shapes[2]) = 2
    /\ Triple(1) = Triple(2)
    /\ Triple(3) # Triple(1)
    /\ call.ret.indices = << 0, 0, 1 >>
    /\ call.ret.vertices = << Triple(1), Triple(3) >>

(***************************************************************************)
(* Further properties of the frame loop.                                   *)
(***************************************************************************)
\* C37: an iteration whose acquire returned VK_SUBOPTIMAL_KHR goes on as one
\* whose acquire returned VK_SUCCESS: the acquire is followed by the submit
\* (no recreation, no abort), a submit that succeeds by the present, in the
\* same iteration; a recreation that runs later in the iteration was
\* called for by the result of the present, and the iteration is over only
\* with the image presented or the process aborted by a later result.
C37_SuboptimalAcquireContinues ==
    ( iter.acquire = "VK_SUBOPTIMAL_KHR" /\ ~AfterLoop ) =>
        /\ iter.acquires = 1
        /\ "acquire" \in inFlight \/ "acquire" \in Range(retired)
        /\ iter.submits = 0 => pc = "submit"
        /\ ( iter.submits = 1 /\ iter.submit # "VK_SUCCESS" ) => pc = "aborted"
        /\ ( iter.submits = 1 /\ iter.submit = "VK_SUCCESS"
                              /\ iter.presents = 0 ) => pc = "present"
        /\ ctx \in {"resize", "acquire", "present"} =>
              /\ ctx = "present"
              /\ iter.present \in {"VK_ERROR_OUT_OF_DATE_KHR", "VK_SUBOPTIMAL_KHR"}
        /\ pc = "loop" => iter.submits = 1 /\ iter.presents = 1

\* An iteration with a suboptimal acquire has submitted, presented with
\* success and returned, with no recreation.
C37_Witness ==
    /\ pc = "loop"
    /\ iter.acquire = "VK_SUBOPTIMAL_KHR"
    /\ iter.submit = "VK_SUCCESS"
    /\ iter.present = "VK_SUCCESS"
    /\ iter.recreations = 0
    /\ retired = GpuOrder


(***************************************************************************)
(* Properties of the objects' lifetimes.                                   *)
(***************************************************************************)
\* The objects local to one create function.
TransientObjects == { "stagingBuffer", "vertShaderModule", "fragShaderModule" }

\* The objects init creates that do not depend on the swapchain and that
\* RenderSystem::shutdown destroys.
PersistentObjects ==
    { "mesh.vertexBuffer", "mesh.indexBuffer", "uniformBuffer", "textureImage",
      "textureImageView", "textureSampler", "descriptorSetLayout",
      "descriptorPool", "descriptorSet", "drawingCommandPool",
      "memoryTransferCommandPool", "imageAvailableSemaphore",
      "renderFinishedSemaphore" }

\* C34: over init, any frames with any resize, out-of-date and suboptimal
\* events, and shutdown, no destroy call is made on an object that is not
\* live (so none is destroyed twice or without having been created), no
\* create call overwrites a live object, and when shutdown has returned
\* nothing is live: no swapchain-dependent object, no other object, no
\* staging buffer, no shader module and no one-shot command buffer.
C34_DestroyedOnceNothingLeft ==
    /\ [](misuse = {})
    /\ [][ \A o \in SwapChainObjects :
             ( objs'[o].live /\ objs'[o] # objs[o] ) => ~objs[o].live ]_vars
    /\ []( oneShot = NoOneShot => alive \cap TransientObjects = {} )
    /\ []( pc = "exit" =>
             /\ alive = {}
             /\ \A o \in SwapChainObjects : ~objs[o].live
             /\ oneShot = NoOneShot )

C34_Witness ==
    /\ pc = "exit"
    /\ iter.recreations > 0
    /\ alive = {}
    /\ Len(destroyed) = Len(CleanupSequence)


\* C31: a swapchain recreation neither destroys nor creates any of the
\* objects that are not tied to the swapchain (mesh vertex and index
\* buffers, uniform buffer, texture image, view and sampler, descriptor set
\* layout, pool and set, both command pools, both semaphores): they are all
\* live throughout, and the only steps that take one of them away are those
\* of RenderSystem::shutdown after its cleanupSwapChain.
C31_RecreationKeepsOtherObjects ==
    /\ []( RecreationRunning => PersistentObjects \subseteq alive )
    /\ [][ RecreationRunning =>
             /\ alive' \cap PersistentObjects = alive \cap PersistentObjects
             /\ misuse' = misuse ]_vars
    /\ [][ ( alive \cap PersistentObjects ) \ alive' # {} =>
             pc = "shutdownRest" ]_vars
    /\ [][ ( alive' \cap PersistentObjects ) \ alive # {} =>
             ( ctx = "init" /\ pc \in OtherInitSteps ) ]_vars

C31_Witness ==
    /\ pc = "loop"
    /\ iter.recreations > 0
    /\ PersistentObjects \subseteq alive
    /\ misuse = {}


\* The buffers and images allocated from m_allocator.
AllocatorChildren ==
    { "stagingBuffer", "textureImage", "mesh.vertexBuffer", "mesh.indexBuffer",
      "uniformBuffer" }

\* The objects created from m_device, the allocator among them.
DeviceChildren ==
    ( PersistentObjects \cup TransientObjects \cup {"allocator"} )

\* The objects RenderSystem owns.
RenderObjects == DeviceChildren \cup { "device", "surface", "instance" }

AnySwapChainObjectLive == \E o \in SwapChainObjects : objs[o].live

\* C39: the window exists whenever any object of the render system does
\* (WindowSystem::init runs before RenderSystem::init, which makes the
\* surface from the window, and WindowSystem::shutdown after
\* RenderSystem::shutdown); the allocator is live whenever a buffer or an
\* image is; the device is live whenever one of its child objects or the
\* allocator is; the surface is live whenever the device is; and the
\* instance is live whenever any other object of the render system is.
C39_LifecycleOrdering ==
    /\ ( alive \cap RenderObjects # {} \/ AnySwapChainObjectLive ) =>
           "window" \in alive
    /\ ( alive \cap AllocatorChildren # {} \/ objs["depthImage"].live ) =>
           "allocator" \in alive
    /\ ( alive \cap DeviceChildren # {} \/ AnySwapChainObjectLive ) =>
           "device" \in alive
    /\ "device" \in alive => "surface" \in alive
    /\ ( alive \cap ( RenderObjects \ {"instance"} ) # {}
         \/ AnySwapChainObjectLive ) => "instance" \in alive

C39_Witness ==
    /\ pc = "shutdownRest"
    /\ alive = { "instance", "window" }


\* A create function of init or of a recreation is about to run.
AtCreateStep ==
    /\ pc \in Range(InitSequence)
    /\ ctx \in {"init", "resize", "acquire", "present"}
    /\ oneShot = NoOneShot

\* C36: in init and in every recreation each create function uses only
\* objects that are live when it runs; in particular the render pass,
\* framebuffer, pipeline, descriptor set, vertex buffer and index buffer
\* recorded into the per-frame command buffers are objects created earlier.
C36_CreateUsesLiveObjects ==
    AtCreateStep => \A r \in Uses(pc) : IsLive(r)

\* What holds instead: every handle a create function uses is live but
\* the two buffer members createCommandBuffers binds.
C36_AllButBoundBuffersLive ==
    AtCreateStep =>
        \A r \in Uses(pc) \ { "m_vertexBuffer", "m_indexBuffer" } : IsLive(r)

C36_Witness ==
    /\ pc = "createCommandBuffers"
    /\ ctx = "present"
    /\ { "mesh.vertexBuffer", "mesh.indexBuffer" } \subseteq alive
    /\ ~IsLive("m_vertexBuffer")


\* What each swapchain-dependent object holds a handle of, from the create
\* functions: createFramebuffers attaches an image view and the depth
\* image view and names the render pass; createCommandBuffers records the
\* framebuffers, the pipeline, its layout and the render pass; the pipeline
\* is built for the render pass with the pipeline layout; a view is a view
\* of its image.
ReferencedBy(o) ==
    CASE o = "framebuffers" -> { "imageViews", "depthImageView", "renderPass" }
      [] o = "commandBuffers" ->
             { "framebuffers", "pipeline", "pipelineLayout", "renderPass" }
      [] o = "pipeline" -> { "renderPass", "pipelineLayout" }
      [] o = "depthImageView" -> { "depthImage" }
      [] o = "imageViews" -> { "swapChain" }
      [] OTHER -> {}

\* C35: during cleanupSwapChain no object is destroyed while a live object
\* references it: every object a live object references is live itself
\* (image views and depth image view while the framebuffers are, the
\* framebuffers and the pipeline while the command buffers are, the render
\* pass while the pipeline or the framebuffers are).
C35_NoReferencedObjectDestroyed ==
    pc = "cleanupSwapChain" =>
        \A o \in SwapChainObjects :
            objs[o].live => \A r \in ReferencedBy(o) : objs[r].live

\* The part of it that cleanupSwapChain keeps: the swapchain image views
\* outlive the framebuffers, the pipeline outlives the command buffers, the
\* render pass outlives the pipeline and the framebuffers, the pipeline
\* layout outlives the pipeline.
C35_KeptPart ==
    pc = "cleanupSwapChain" =>
        /\ objs["framebuffers"].live =>
               objs["imageViews"].live /\ objs["renderPass"].live
        /\ objs["commandBuffers"].live =>
               /\ objs["pipeline"].live
               /\ objs["pipelineLayout"].live
               /\ objs["renderPass"].live
        /\ objs["pipeline"].live =>
               objs["renderPass"].live /\ objs["pipelineLayout"].live
        /\ objs["imageViews"].live => objs["swapChain"].live


(***************************************************************************)
(* Properties of the uniform buffer and of the image counts.               *)
(***************************************************************************)
\* The CPU writes the mapped uniform buffer in this step.
UniformBufferWritten ==
    \/ uboExtent' # uboExtent
    \/ iter'.uboWritten /\ ~iter.uboWritten

\* C32: the uniform buffer is written by updateUniformBuffer in the frame
\* loop only, while the buffer is live, and never while a submitted draw,
\* which reads it, is still in flight.
C32_UniformBufferSingleWriter ==
    /\ [][ UniformBufferWritten =>
             /\ pc = "updateUniformBuffer"
             /\ frame > 0
             /\ "uniformBuffer" \in alive
             /\ "draw" \notin inFlight ]_vars
    /\ []( pc = "updateUniformBuffer" => "draw" \notin inFlight )

C32_Witness ==
    /\ pc = "resizeCheck"
    /\ iter.uboWritten
    /\ frame > 1
    /\ "draw" \notin inFlight


\* update is between two of its statements and no recreation is running.
InFrame ==
    /\ ctx = "none"
    /\ pc \in {"loop", "glfwPollEvents", "updateUniformBuffer", "resizeCheck",
               "acquire", "submit", "present", "queueWaitIdle"}

\* C33: after init and after every recreation the swapchain images, the
\* image views, the framebuffers and the per-frame command buffers are
\* equally many, and the image index the submit uses is an index of the
\* command buffer list.
C33_EqualCounts ==
    /\ InFrame =>
           /\ sizes["swapChain"] \in ImageCounts
           /\ \A v \in SizedVectors : sizes[v] = sizes["swapChain"]
    /\ pc \in {"submit", "present"} =>
           /\ iter.imageIndex >= 0
           /\ iter.imageIndex < sizes["commandBuffers"]
           /\ iter.imageIndex < sizes["swapChain"]

C33_Witness ==
    /\ pc = "submit"
    /\ iter.recreations > 0
    /\ sizes["commandBuffers"] = 3
    /\ iter.imageIndex = 2

====
